---- MODULE Spec2Model ----
(***************************************************************************)
(* go-pg/migrations: the migration execution engine of src/collection.go   *)
(* (Collection.Run and its helpers), the registry (Collection.migrations)  *)
(* and the version ledger (table gopg_migrations), run against a database  *)
(* that offers transactions, LOCK TABLE and per-statement failures.        *)
(***************************************************************************)
EXTENDS Integers, Sequences, FiniteSets, TLC

\* ---------------------------------------------------------------- bounds
MaxVersion == 3       \* registered versions are drawn from 1..MaxVersion
MaxRegs == 3          \* records registered in one behaviour
MaxRuns == 2          \* Run invocations per behaviour, all commands
MaxRoundRuns == 5     \* Run invocations per behaviour, up/down round trips
MaxFaultRuns == 2     \* Run invocations per behaviour, failing database
MaxConcRuns == 2      \* Run invocations per behaviour, concurrent callers
MaxFaults == 1        \* statements the database fails in one behaviour
MaxCount == 2         \* the execution counters saturate here
MaxTargetRuns == 3    \* Run invocations per behaviour, up with a target
MaxBeginRuns == 2     \* Run invocations per behaviour, failing begin
MaxLedgerRuns == 3    \* Run invocations per behaviour, ledger commands
MaxSnapRuns == 2      \* Run invocations per behaviour, live registration
MaxFiles == 2         \* entries of the migrations directory
MaxDiscovers == 2     \* DiscoverSQLMigrations calls per behaviour
MaxConns == 2         \* connections of the pool
MaxSQLRuns == 1       \* executions of a SQL action per behaviour
MaxRaceCalls == 3     \* registration and discovery calls of the goroutines
MaxCalls == 3         \* direct Version / SetVersion calls per behaviour
MaxMixRuns == 2       \* Run invocations per behaviour, up against down
MaxLiveRuns == 2      \* Run invocations per behaviour, fair scheduling
MaxResetRuns == 2     \* Run invocations per behaviour, reset under fairness
MaxLines == 3         \* lines of a SQL file
MaxSkipRuns == 2      \* Run invocations per behaviour, up after a jump

\* ------------------------------------------------------ program constants
MaxInt64 == 2147483647 \* math.MaxInt64, the default target of "up" (the
                       \* checker's integers are 32 bits wide)

Procs == {1, 2}
Versions == 1..MaxVersion
Conns == 1..MaxConns

VARIABLES
    registry,       \* c.migrations: records in the order the code keeps them
    unordered,      \* some record was registered after one of greater version
    tableExists,    \* the ledger table exists (pg_tables has its row)
    ledger,         \* committed rows of the ledger table, in id order
    lockSupported,  \* the engine accepts LOCK TABLE
    txs,            \* per caller: the transactions its invocation has begun
    applied,        \* per version: net durable effects of its up action
    upExec,         \* per version: successful executions of its up action
    run,            \* per caller: the frame of its Run invocation
    runs,           \* Run invocations started so far
    faults,         \* statements the database may still fail
    dirFiles,       \* entries of the migrations directory, in ReadDir order
    visitedDirs,    \* c.visitedDirs: absolute paths already discovered
    disc,           \* the last DiscoverSQLMigrations call, as its caller saw it
    sql,            \* the frame of a SQL action (newSQLMigration's closure)
    mu,             \* c.mu: the goroutine that holds the mutex (0: none)
    gor,            \* per goroutine: the frame of its registration call
    added,          \* the records handed to addMigration so far
    call            \* the last direct Version / SetVersion call

vars == <<registry, unordered, tableExists, ledger, lockSupported, txs, applied, upExec,
          run, runs, faults, dirFiles, visitedDirs, disc, sql, mu, gor, added,
          call>>

dbvars == <<tableExists, ledger, lockSupported, txs, applied, upExec, run, runs>>
sqlvars == <<dirFiles, visitedDirs, disc, sql>>
apivars == <<mu, gor, added, call>>

\* ---------------------------------------------------------------- helpers
Min(S) == CHOOSE x \in S : \A y \in S : x <= y
Max(S) == CHOOSE x \in S : \A y \in S : x >= y
Bump(n) == IF n < MaxCount THEN n + 1 ELSE MaxCount

\* type Migration struct {Version; UpTx; Up; DownTx; Down}
Migration(v, upTx, downTx, hasDown) ==
    [Version |-> v, UpTx |-> upTx, DownTx |-> downTx, HasDown |-> hasDown]

\* func insert(s, i, x): x placed at (1-based) position i
insertAfter(s, i, x) == SubSeq(s, 1, i) \o <<x>> \o SubSeq(s, i + 1, Len(s))

insert(s, i, x) == SubSeq(s, 1, i - 1) \o <<x>> \o SubSeq(s, i, Len(s))

addMigrationLast(ms, m) == Append(ms, m)

\* Collection.addMigration: before the first record with a greater version
addMigration(ms, m) ==
    LET greater == {i \in 1..Len(ms) : ms[i].Version > m.Version}
    IN  IF greater = {} THEN Append(ms, m) ELSE insert(ms, Min(greater), m)

validateMigrationsNever(ms) == FALSE

\* validateMigrations: TRUE iff two records share a version (the error case)
validateMigrations(ms) ==
    \E i, j \in 1..Len(ms) : i < j /\ ms[i].Version = ms[j].Version

tableFoundAlways(n) == TRUE

\* Collection.tableExists: n rows of pg_tables name the table; `n == 1`
tableFound(n) == n = 1

\* Collection.createTable: CREATE TABLE without IF NOT EXISTS, an error when
\* the table is there
createTable(exists) == IF exists THEN "exists" ELSE "nil"

VersionGreatest(rows) ==
    IF rows = <<>> THEN 0 ELSE Max({rows[i] : i \in 1..Len(rows)})

VersionOldest(rows) == IF rows = <<>> THEN 0 ELSE rows[1]

\* Collection.Version: SELECT version ... ORDER BY id DESC LIMIT 1; 0 if none
Version(rows) == IF rows = <<>> THEN 0 ELSE rows[Len(rows)]

\* strconv.ParseInt(s, 10, 64) on a string given as its characters
DigitVal(c) ==
    CASE c = "0" -> 0 [] c = "1" -> 1 [] c = "2" -> 2 [] c = "3" -> 3
      [] c = "4" -> 4 [] c = "5" -> 5 [] c = "6" -> 6 [] c = "7" -> 7
      [] c = "8" -> 8 [] c = "9" -> 9 [] OTHER -> -1

RECURSIVE ParseDigits(_, _)
ParseDigits(s, acc) ==
    IF s = <<>> THEN acc
    ELSE IF DigitVal(Head(s)) < 0 THEN -1
    ELSE ParseDigits(Tail(s), acc * 10 + DigitVal(Head(s)))

ParseIntNoSign(s) ==
    LET signed == s # <<>> /\ Head(s) \in {"+", "-"}
        body == IF signed THEN Tail(s) ELSE s
        u == IF body = <<>> THEN -1 ELSE ParseDigits(body, 0)
    IN  IF u < 0 \/ u > MaxInt64 THEN [ok |-> FALSE, n |-> 0]
        ELSE [ok |-> TRUE, n |-> u]

ParseIntLenient(s) ==
    LET signed == s # <<>> /\ Head(s) \in {"+", "-"}
        body == IF signed THEN Tail(s) ELSE s
        u == IF body = <<>> THEN -1 ELSE ParseDigits(body, 0)
    IN  [ok |-> TRUE,
         n |-> IF u < 0 \/ u > MaxInt64 THEN 0
               ELSE IF signed /\ Head(s) = "-" THEN 0 - u ELSE u]

\* strconv.ParseInt(s, 10, 64): an optional sign, then decimal digits
ParseInt(s) ==
    LET signed == s # <<>> /\ Head(s) \in {"+", "-"}
        body == IF signed THEN Tail(s) ELSE s
        u == IF body = <<>> THEN -1 ELSE ParseDigits(body, 0)
    IN  IF u < 0 \/ u > MaxInt64 THEN [ok |-> FALSE, n |-> 0]
        ELSE [ok |-> TRUE, n |-> IF signed /\ Head(s) = "-" THEN 0 - u ELSE u]

downRecordExact(ms, oldVersion) ==
    LET same == {i \in 1..Len(ms) : ms[i].Version = oldVersion}
    IN  IF same = {} THEN 0 ELSE Max(same)

downRecordFirst(ms, oldVersion) ==
    LET below == {i \in 1..Len(ms) : ms[i].Version <= oldVersion}
    IN  IF below = {} THEN 0 ELSE Min(below)

\* Collection.down, the search: the last record with Version <= oldVersion
\* (0 when there is none)
downRecord(ms, oldVersion) ==
    LET below == {i \in 1..Len(ms) : ms[i].Version <= oldVersion}
    IN  IF below = {} THEN 0 ELSE Max(below)

runUpVersionOff(m) == m.Version - 1

runDownVersionSame(m) == m.Version

\* Collection.runUp / runDown: the version the step records
runUpVersion(m) == m.Version
runDownVersion(m) == m.Version - 1

pastTargetNever(m, target) == FALSE

pastTargetEarly(m, target) == m.Version >= target

\* the up loop: `if m.Version > target { break }`
pastTarget(m, target) == m.Version > target

isAppliedNever(m, version) == FALSE

isAppliedStrict(m, version) == m.Version < version

\* the up loop: `if m.Version <= version { continue }`
isApplied(m, version) == m.Version <= version

resetDoneNever(newVersion, version) == FALSE

resetDoneLoose(newVersion, version) == newVersion <= version

\* the exit test of the reset loop: `if newVersion == version { break }`
resetDone(newVersion, version) == newVersion = version

\* ------------------------------------------------- errors of LOCK TABLE
\* error messages, as the words they consist of
CockroachErr ==
    <<"ERROR", "#42601", "syntax", "error", "at", "or", "near", "\"lock\"">>
YugabyteErr ==
    <<"ERROR", "#0A000", "lock", "mode", "not", "supported", "yet">>
LockTimeoutErr ==
    <<"ERROR", "#55P03", "canceling", "statement", "due", "to", "lock",
      "timeout">>
LockErrors == {CockroachErr, YugabyteErr, LockTimeoutErr}

\* strings.Contains
Contains(s, sub) ==
    \E i \in 0..(Len(s) - Len(sub)) : SubSeq(s, i + 1, i + Len(sub)) = sub

lockUnsupportedAny(msg) == TRUE

lockUnsupportedNone(msg) == FALSE

\* Collection.begin: the LOCK TABLE errors after which begin goes on without
\* the lock: strings.Contains(err.Error(), "syntax error at or near \"lock\"")
lockUnsupported(msg) ==
    Contains(msg, <<"syntax", "error", "at", "or", "near", "\"lock\"">>)

\* ----------------------------------------------------------- transactions
NewTxLocked(locked) ==
    [st |-> "open", rows |-> <<>>, effs |-> <<>>, lock |-> TRUE]

NewTxUnlocked(locked) ==
    [st |-> "open", rows |-> <<>>, effs |-> <<>>, lock |-> FALSE]

NewTx(locked) == [st |-> "open", rows |-> <<>>, effs |-> <<>>, lock |-> locked]

LockIgnored == FALSE

LockHeldForever == \E q \in Procs : \E i \in 1..Len(txs[q]) : txs[q][i].lock

LockHeld == \E q \in Procs : \E i \in 1..Len(txs[q]) :
                txs[q][i].st = "open" /\ txs[q][i].lock

\* the durable effect of one action: up adds one, down removes them
Effect(ap, e) ==
    IF e[2] \notin Versions THEN ap
    ELSE IF e[1] = "up" THEN [ap EXCEPT ![e[2]] = Bump(@)]
    ELSE [ap EXCEPT ![e[2]] = 0]

RECURSIVE Effects(_, _)
Effects(ap, es) ==
    IF es = <<>> THEN ap ELSE Effects(Effect(ap, Head(es)), Tail(es))

deferredRollbackNone(ts, d) == ts

\* defer tx.Rollback() of Run: it is bound to the transaction of the first
\* begin; Rollback of a transaction that is already closed changes nothing
deferredRollback(ts, d) ==
    IF d # 0 /\ ts[d].st = "open"
    THEN [ts EXCEPT ![d].st = "rolledback"] ELSE ts

IdleFrame ==
    [pc |-> "idle", a |-> <<>>, cmd |-> "", migrations |-> <<>>, tx |-> 0,
     dtx |-> 0, version |-> 0, oldVersion |-> 0, newVersion |-> 0, err |-> "nil",
     idx |-> 0, target |-> 0, trace |-> <<>>, at |-> "", ledger0 |-> <<>>,
     table0 |-> FALSE, idleErr |-> FALSE, lockErr |-> <<>>,
     prev |-> [a |-> <<>>, err |-> "none", oldVersion |-> 0, newVersion |-> 0]]

\* a return statement of Run with the given error; the deferred Rollback
\* runs on the way out
Return(p, f, e, ts) ==
    /\ run' = [run EXCEPT ![p] =
           [f EXCEPT !.pc = "done", !.err = e, !.at = f.pc]]
    /\ txs' = [txs EXCEPT ![p] = deferredRollback(ts, f.dtx)]

\* tx.Commit() that succeeds: the rows and the effects of the transaction
\* become durable and its lock is released
Commit(p, t) ==
    /\ ledger' = ledger \o txs[p][t].rows
    /\ applied' = Effects(applied, txs[p][t].effs)

CommittedStaysOpen(ts, t) == ts

Committed(ts, t) == [ts EXCEPT ![t].st = "committed"]

SetVersionTwice(ts, t, v) == [ts EXCEPT ![t].rows = @ \o <<v, v>>]

\* Collection.SetVersion(tx, v): INSERT INTO ledger, pending in tx
SetVersion(ts, t, v) == [ts EXCEPT ![t].rows = Append(@, v)]

ActOutsideTx(ts, t, e) == ts

\* an action run on handle db: on the transaction when the record is
\* flagged transactional, otherwise on the ambient handle (durable at once)
ActOnTx(ts, t, e) == [ts EXCEPT ![t].effs = Append(@, e)]

\* ------------------------------------------------------------ registration
\* NewCollection(ms...) / Collection.register: one addMigration per record
Register(m) ==
    /\ Len(registry) < MaxRegs
    /\ registry' = addMigration(registry, m)
    /\ unordered' = (unordered \/ \E i \in 1..Len(registry) :
                                      registry[i].Version > m.Version)
    /\ UNCHANGED <<tableExists, ledger, lockSupported, txs, applied, upExec,
                   run, runs, faults>>

\* ------------------------------------------------------------ Collection.Run
\* Collection.Migrations: a copy of c.migrations (SQL autodiscovery disabled)
Migrations == registry

SnapshotLive(f) == registry

\* the local slice `migrations` of Run: the copy Migrations() returned when
\* the invocation started
Snapshot(f) == f.migrations

\* what the caller saw of its previous invocation (kept for the properties)
Outcome(f) ==
    IF f.pc = "done"
    THEN [a |-> f.a, err |-> f.err, oldVersion |-> f.oldVersion,
          newVersion |-> f.newVersion]
    ELSE IdleFrame.prev

\* case "create": without a description a message is printed and Run
\* returns nil; otherwise a template file is written into the working
\* directory, which fails when the file is already there
createMigrationFile(a) ==
    IF Len(a) < 2 THEN {"nil"} ELSE {"nil", "file_exists"}

\* Run up to the first database round trip after the existence check:
\* snapshot, validation, the init command, tableExists
StartRun(p, a) ==
    LET cmd == IF Len(a) > 0 THEN a[1] ELSE "up"
        f == [IdleFrame EXCEPT !.a = a, !.cmd = cmd, !.migrations = Migrations,
                               !.ledger0 = ledger, !.table0 = tableExists,
                               !.prev = Outcome(run[p])]
    IN  /\ run[p].pc \in {"idle", "done"}
        /\ \A i \in 1..Len(txs[p]) : txs[p][i].st # "open"
        /\ runs' = runs + 1
        /\ IF validateMigrations(f.migrations)
           THEN Return(p, f, "duplicate", <<>>) /\ UNCHANGED tableExists
           ELSE IF cmd = "init"
           THEN /\ Return(p, f, createTable(tableExists), <<>>)
                /\ tableExists' = TRUE
           ELSE IF cmd = "create"
           THEN /\ \E e \in createMigrationFile(a) : Return(p, f, e, <<>>)
                /\ UNCHANGED tableExists
           ELSE IF ~tableFound(IF tableExists THEN 1 ELSE 0)
           THEN Return(p, f, "no_table", <<>>) /\ UNCHANGED tableExists
           ELSE /\ run' = [run EXCEPT ![p] = [f EXCEPT !.pc = "begin"]]
                /\ txs' = [txs EXCEPT ![p] = <<>>]
                /\ UNCHANGED tableExists
        /\ UNCHANGED <<registry, unordered, ledger, lockSupported, applied,
                       upExec, faults>>

\* Collection.begin: Begin, SET idle_in_transaction_session_timeout, LOCK
\* TABLE (waits while another transaction holds the lock; on an engine
\* without it: Rollback and a fresh Begin), then Version(tx)
begin(p) ==
    LET f == run[p]
        ts == IF lockSupported THEN Append(txs[p], NewTx(TRUE))
              ELSE txs[p] \o <<[NewTx(FALSE) EXCEPT !.st = "rolledback"],
                                NewTx(FALSE)>>
        g == [f EXCEPT !.tx = Len(ts), !.version = Version(ledger)]
    IN  /\ f.pc \in {"begin", "upBegin", "resetBegin"}
        /\ lockSupported => ~LockHeld
        /\ txs' = [txs EXCEPT ![p] = ts]
        /\ run' = [run EXCEPT ![p] =
               CASE f.pc = "begin" ->
                        [g EXCEPT !.pc = "dispatch", !.dtx = Len(ts),
                                  !.oldVersion = g.version,
                                  !.newVersion = g.version]
                 [] f.pc = "upBegin" -> [g EXCEPT !.pc = "upLoop"]
                 [] OTHER -> [g EXCEPT !.pc = "resetDown"]]
        /\ UNCHANGED <<registry, unordered, tableExists, ledger, lockSupported, applied,
                       upExec, runs, faults>>

\* the frame of Run when a call of begin returns (tx, version, nil): after
\* the first call the deferred Rollback is registered and oldVersion and
\* newVersion are set, in the up loop and the reset loop the loop goes on
afterBegin(f, g, n) ==
    CASE f.pc = "begin" ->
             [g EXCEPT !.pc = "dispatch", !.dtx = n,
                       !.oldVersion = g.version, !.newVersion = g.version]
      [] f.pc = "upBegin" -> [g EXCEPT !.pc = "upLoop"]
      [] OTHER -> [g EXCEPT !.pc = "resetDown"]

\* Collection.begin when SET idle_in_transaction_session_timeout fails:
\* Rollback, a fresh Begin, then LOCK TABLE and Version as in begin
beginIdleFail(p) ==
    LET f == run[p]
        fresh == Append(txs[p], [NewTx(FALSE) EXCEPT !.st = "rolledback"])
        ts == IF lockSupported THEN Append(fresh, NewTx(TRUE))
              ELSE fresh \o <<[NewTx(FALSE) EXCEPT !.st = "rolledback"],
                              NewTx(FALSE)>>
        g == [f EXCEPT !.tx = Len(ts), !.version = Version(ledger),
                       !.idleErr = TRUE]
    IN  /\ f.pc \in {"begin", "upBegin", "resetBegin"}
        /\ faults > 0
        /\ faults' = faults - 1
        /\ lockSupported => ~LockHeld
        /\ txs' = [txs EXCEPT ![p] = ts]
        /\ run' = [run EXCEPT ![p] = afterBegin(f, g, Len(ts))]
        /\ UNCHANGED <<registry, unordered, tableExists, ledger, lockSupported,
                       applied, upExec, runs>>

\* Collection.begin when LOCK TABLE returns the error msg (idle: the SET
\* before it failed as well): Rollback; an error that is not the recognised
\* one is returned (Run returns it, with tx = nil and version = 0), after
\* the recognised one a fresh Begin and Version follow
beginLockFail(p, idle, msg) ==
    LET f == run[p]
        rolledback == [NewTx(FALSE) EXCEPT !.st = "rolledback"]
        closed == txs[p] \o (IF idle THEN <<rolledback>> ELSE <<>>)
                         \o <<rolledback>>
        ts == Append(closed, NewTx(FALSE))
        h == [f EXCEPT !.idleErr = (@ \/ idle), !.lockErr = msg]
        g == [h EXCEPT !.tx = Len(ts), !.version = Version(ledger)]
        cost == IF idle THEN 2 ELSE 1
    IN  /\ f.pc \in {"begin", "upBegin", "resetBegin"}
        /\ faults >= cost
        /\ faults' = faults - cost
        /\ IF lockUnsupported(msg)
           THEN /\ txs' = [txs EXCEPT ![p] = ts]
                /\ run' = [run EXCEPT ![p] = afterBegin(f, g, Len(ts))]
           ELSE Return(p, [h EXCEPT !.tx = 0, !.version = 0], "lock", closed)
        /\ UNCHANGED <<registry, unordered, tableExists, ledger, lockSupported,
                       applied, upExec, runs>>

\* the switch on cmd, up to the first statement of the chosen case
Dispatch(p) ==
    LET f == run[p]
        arg == IF Len(f.a) > 1 THEN ParseInt(f.a[2]) ELSE [ok |-> FALSE, n |-> 0]
    IN  /\ f.pc = "dispatch"
        /\ CASE f.cmd = "version" ->
                    /\ run' = [run EXCEPT ![p].pc = "final"]
                    /\ UNCHANGED txs
             [] f.cmd = "up" ->
                    IF Len(f.a) > 1 /\ ~arg.ok
                    THEN Return(p, f, "parse", txs[p])
                    ELSE /\ run' = [run EXCEPT ![p] =
                              IF Len(f.a) > 1
                              THEN [f EXCEPT !.target = arg.n, !.idx = 1,
                                       !.pc = IF f.version > arg.n
                                              THEN "final" ELSE "upLoop"]
                              ELSE [f EXCEPT !.target = MaxInt64, !.idx = 1,
                                             !.pc = "upLoop"]]
                         /\ UNCHANGED txs
             [] f.cmd = "down" ->
                    /\ run' = [run EXCEPT ![p].pc = "down"]
                    /\ UNCHANGED txs
             [] f.cmd = "reset" ->
                    /\ run' = [run EXCEPT ![p].pc = "resetDown"]
                    /\ UNCHANGED txs
             [] f.cmd = "set_version" ->
                    IF Len(f.a) < 2 THEN Return(p, f, "missing_arg", txs[p])
                    ELSE IF ~arg.ok
                    THEN Return(p, [f EXCEPT !.newVersion = 0], "parse", txs[p])
                    ELSE /\ run' = [run EXCEPT ![p] =
                              [f EXCEPT !.newVersion = arg.n,
                                        !.pc = "setVersion"]]
                         /\ UNCHANGED txs
             [] OTHER -> Return(p, f, "unsupported", txs[p])
        /\ UNCHANGED <<registry, unordered, tableExists, ledger, lockSupported, applied,
                       upExec, runs, faults>>

\* the head of the loop `for _, m := range migrations` of case "up"
UpLoop(p) ==
    LET f == run[p]
    IN  /\ f.pc = "upLoop"
        /\ run' = [run EXCEPT ![p] =
               IF f.idx > Len(Snapshot(f))
                  \/ pastTarget(Snapshot(f)[f.idx], f.target)
               THEN [f EXCEPT !.pc = "final"]
               ELSE IF f.tx = 0 THEN [f EXCEPT !.pc = "upBegin"]
               ELSE IF isApplied(Snapshot(f)[f.idx], f.version)
               THEN [f EXCEPT !.idx = f.idx + 1]
               ELSE [f EXCEPT !.pc = "runUp"]]
        /\ UNCHANGED <<registry, unordered, tableExists, ledger, lockSupported, txs,
                       applied, upExec, runs, faults>>

\* Collection.runUp -> Collection.run: m.Up(db) and SetVersion(tx, m.Version)
\* both succeed
runUp(p) ==
    LET f == run[p]
        m == Snapshot(f)[f.idx]
        e == <<"up", m.Version>>
        acted == IF m.UpTx THEN ActOnTx(txs[p], f.tx, e) ELSE txs[p]
    IN  /\ f.pc = "runUp"
        /\ applied' = IF m.UpTx THEN applied ELSE Effect(applied, e)
        /\ upExec' = [upExec EXCEPT ![m.Version] = Bump(@)]
        /\ txs' = [txs EXCEPT ![p] = SetVersion(acted, f.tx, runUpVersion(m))]
        /\ run' = [run EXCEPT ![p] =
               [f EXCEPT !.newVersion = runUpVersion(m), !.pc = "upCommit",
                         !.trace = Append(@, e)]]
        /\ UNCHANGED <<registry, unordered, tableExists, ledger, lockSupported, runs,
                       faults>>

\* tx.Commit() of the up loop succeeds; tx = nil and the loop goes on
UpCommit(p) ==
    LET f == run[p]
    IN  /\ f.pc = "upCommit"
        /\ Commit(p, f.tx)
        /\ txs' = [txs EXCEPT ![p] = Committed(@, f.tx)]
        /\ run' = [run EXCEPT ![p] =
               [f EXCEPT !.tx = 0, !.idx = f.idx + 1, !.pc = "upLoop"]]
        /\ UNCHANGED <<registry, unordered, tableExists, lockSupported, upExec, runs,
                       faults>>

\* Collection.down -> runDown -> run, every statement succeeding; called by
\* case "down" and by the loop of case "reset"
down(p) ==
    LET f == run[p]
        i == IF f.version = 0 THEN 0 ELSE downRecord(Snapshot(f), f.version)
        m == Snapshot(f)[i]
        e == <<"down", m.Version>>
        acted == IF m.HasDown /\ m.DownTx
                 THEN ActOnTx(txs[p], f.tx, e) ELSE txs[p]
        next == IF f.pc = "down" THEN "final" ELSE "resetCommit"
    IN  /\ f.pc \in {"down", "resetDown"}
        /\ IF i = 0
           THEN /\ run' = [run EXCEPT ![p] =
                       [f EXCEPT !.pc = next,
                                 !.newVersion = IF f.version = 0 THEN 0
                                                ELSE f.version]]
                /\ UNCHANGED <<txs, applied>>
           ELSE /\ applied' = IF m.HasDown /\ ~m.DownTx
                              THEN Effect(applied, e) ELSE applied
                /\ txs' = [txs EXCEPT ![p] =
                       SetVersion(acted, f.tx, runDownVersion(m))]
                /\ run' = [run EXCEPT ![p] =
                       [f EXCEPT !.pc = next, !.newVersion = runDownVersion(m),
                                 !.trace = IF m.HasDown THEN Append(@, e)
                                           ELSE @]]
        /\ UNCHANGED <<registry, unordered, tableExists, ledger, lockSupported, upExec,
                       runs, faults>>

\* tx.Commit() of the reset loop succeeds; the loop ends when the version
\* did not change, and Run returns (tx is nil, no second Commit)
ResetCommit(p) ==
    LET f == run[p]
        g == [f EXCEPT !.tx = 0]
        ts == Committed(txs[p], f.tx)
    IN  /\ f.pc = "resetCommit"
        /\ Commit(p, f.tx)
        /\ IF resetDone(f.newVersion, f.version)
           THEN Return(p, g, "nil", ts)
           ELSE /\ run' = [run EXCEPT ![p] =
                       [g EXCEPT !.version = f.newVersion,
                                 !.pc = "resetBegin"]]
                /\ txs' = [txs EXCEPT ![p] = ts]
        /\ UNCHANGED <<registry, unordered, tableExists, lockSupported, upExec, runs,
                       faults>>

\* case "set_version": c.SetVersion(tx, newVersion) succeeds
RunSetVersion(p) ==
    LET f == run[p]
    IN  /\ f.pc = "setVersion"
        /\ txs' = [txs EXCEPT ![p] = SetVersion(@, f.tx, f.newVersion)]
        /\ run' = [run EXCEPT ![p].pc = "final"]
        /\ UNCHANGED <<registry, unordered, tableExists, ledger, lockSupported, applied,
                       upExec, runs, faults>>

\* after the switch: `if tx != nil { err = tx.Commit() }`, succeeding
Final(p) ==
    LET f == run[p]
    IN  /\ f.pc = "final"
        /\ IF f.tx # 0
           THEN /\ Commit(p, f.tx)
                /\ Return(p, [f EXCEPT !.tx = 0], "nil",
                          Committed(txs[p], f.tx))
           ELSE /\ Return(p, f, "nil", txs[p])
                /\ UNCHANGED <<ledger, applied>>
        /\ UNCHANGED <<registry, unordered, tableExists, lockSupported, upExec, runs,
                       faults>>

\* ------------------------------------------------- failing database calls
\* Collection.runUp -> run with a failing statement: stmt = "action" is
\* m.Up(db) returning an error (run returns 0, err), stmt = "set_version" is
\* the INSERT of SetVersion failing after the action succeeded
runUpFail(p, stmt) ==
    LET f == run[p]
        m == Snapshot(f)[f.idx]
        e == <<"up", m.Version>>
    IN  /\ f.pc = "runUp"
        /\ faults > 0
        /\ faults' = faults - 1
        /\ IF stmt = "action"
           THEN /\ Return(p, [f EXCEPT !.newVersion = 0], "action", txs[p])
                /\ UNCHANGED <<applied, upExec>>
           ELSE /\ applied' = IF m.UpTx THEN applied ELSE Effect(applied, e)
                /\ upExec' = [upExec EXCEPT ![m.Version] = Bump(@)]
                /\ Return(p, [f EXCEPT !.newVersion = runUpVersion(m),
                                       !.trace = Append(@, e)],
                          "set_version",
                          IF m.UpTx THEN ActOnTx(txs[p], f.tx, e) ELSE txs[p])
        /\ UNCHANGED <<registry, unordered, tableExists, ledger, lockSupported,
                       runs>>

\* Collection.down -> runDown -> run with a failing statement
downFail(p, stmt) ==
    LET f == run[p]
        i == IF f.version = 0 THEN 0 ELSE downRecord(Snapshot(f), f.version)
        m == Snapshot(f)[i]
        e == <<"down", m.Version>>
    IN  /\ f.pc \in {"down", "resetDown"}
        /\ i # 0
        /\ stmt = "action" => m.HasDown
        /\ faults > 0
        /\ faults' = faults - 1
        /\ IF stmt = "action"
           THEN /\ Return(p, [f EXCEPT !.newVersion = 0], "action", txs[p])
                /\ UNCHANGED applied
           ELSE /\ applied' = IF m.HasDown /\ ~m.DownTx
                              THEN Effect(applied, e) ELSE applied
                /\ Return(p, [f EXCEPT !.newVersion = runDownVersion(m),
                                       !.trace = IF m.HasDown
                                                 THEN Append(@, e) ELSE @],
                          "set_version",
                          IF m.HasDown /\ m.DownTx
                          THEN ActOnTx(txs[p], f.tx, e) ELSE txs[p])
        /\ UNCHANGED <<registry, unordered, tableExists, ledger, lockSupported,
                       upExec, runs>>

\* case "set_version" with the INSERT failing
RunSetVersionFail(p) ==
    LET f == run[p]
    IN  /\ f.pc = "setVersion"
        /\ faults > 0
        /\ faults' = faults - 1
        /\ Return(p, f, "set_version", txs[p])
        /\ UNCHANGED <<registry, unordered, tableExists, ledger, lockSupported,
                       applied, upExec, runs>>

\* tx.Commit() returning an error (in the up loop, in the reset loop or
\* after the switch): nothing of the transaction becomes durable, the
\* transaction is closed, Run returns the error
CommitFail(p) ==
    LET f == run[p]
    IN  /\ f.pc \in {"upCommit", "resetCommit", "final"}
        /\ f.tx # 0
        /\ faults > 0
        /\ faults' = faults - 1
        /\ Return(p, f, "commit", [txs[p] EXCEPT ![f.tx].st = "rolledback"])
        /\ UNCHANGED <<registry, unordered, tableExists, ledger, lockSupported,
                       applied, upExec, runs>>

\* the calling program exits (example main: exitf): the server aborts the
\* transactions its connections still have open
Exit(p) ==
    /\ run[p].pc = "done"
    /\ \E i \in 1..Len(txs[p]) : txs[p][i].st = "open"
    /\ txs' = [txs EXCEPT ![p] =
           [i \in 1..Len(@) |-> IF @[i].st = "open"
                                THEN [@[i] EXCEPT !.st = "aborted"] ELSE @[i]]]
    /\ UNCHANGED <<registry, unordered, tableExists, ledger, lockSupported,
                   applied, upExec, run, runs, faults>>

\* ------------------------------------------------- SQL migrations on disk
\* a directory entry: the file name up to the first '_' (ver), whether the
\* name has a '_' (sep), the extensions that end the name (ext), the lines
\* of the file (body)
File(ver, sep, ext, body) ==
    [isDir |-> FALSE, ver |-> ver, sep |-> sep, ext |-> ext, body |-> body]

\* strings.HasSuffix
HasSuffix(s, suffix) ==
    /\ Len(suffix) <= Len(s)
    /\ SubSeq(s, Len(s) - Len(suffix) + 1, Len(s)) = suffix

\* &Migration{Version: version}: no action, no flag
SQLMigration(version) ==
    [Version |-> version, UpTx |-> FALSE, DownTx |-> FALSE, HasUp |-> FALSE,
     HasDown |-> FALSE, UpBody |-> <<>>, DownBody |-> <<>>]

\* newMigration of DiscoverSQLMigrations, the search: the record of the
\* local list that has this version (0 when there is none)
newMigration(ms, version) ==
    LET same == {i \in 1..Len(ms) : ms[i].Version = version}
    IN  IF same = {} THEN 0 ELSE Min(same)

\* the loop over the entries of the directory: the local list ms it builds
\* and the error it stops at
RECURSIVE scanFiles(_, _)
scanFiles(files, ms) ==
    IF files = <<>> THEN [err |-> "nil", ms |-> ms]
    ELSE LET f == Head(files)
             v == ParseInt(f.ver)
             k == newMigration(ms, v.n)
             ms1 == IF k = 0 THEN Append(ms, SQLMigration(v.n)) ELSE ms
             i == IF k = 0 THEN Len(ms1) ELSE k
             m == ms1[i]
         IN  IF f.isDir \/ ~HasSuffix(f.ext, <<".sql">>)
             THEN scanFiles(Tail(files), ms)
             ELSE IF ~f.sep THEN [err |-> "name", ms |-> ms]
             ELSE IF ~v.ok THEN [err |-> "parse", ms |-> ms]
             ELSE IF HasSuffix(f.ext, <<".up", ".sql">>)
             THEN IF m.HasUp THEN [err |-> "has_up", ms |-> ms1]
                  ELSE scanFiles(Tail(files),
                           [ms1 EXCEPT ![i] =
                               [m EXCEPT !.HasUp = TRUE, !.UpBody = f.body,
                                         !.UpTx = HasSuffix(f.ext,
                                             <<".tx", ".up", ".sql">>)]])
             ELSE IF HasSuffix(f.ext, <<".down", ".sql">>)
             THEN IF m.HasDown THEN [err |-> "has_down", ms |-> ms1]
                  ELSE scanFiles(Tail(files),
                           [ms1 EXCEPT ![i] =
                               [m EXCEPT !.HasDown = TRUE, !.DownBody = f.body,
                                         !.DownTx = HasSuffix(f.ext,
                                             <<".tx", ".down", ".sql">>)]])
             ELSE [err |-> "extension", ms |-> ms1]

registeredPartial(r) == r.ms

\* the records the final loop of DiscoverSQLMigrations hands to
\* addMigration: the loop is reached only when no entry was in error
registered(r) == IF r.err = "nil" THEN r.ms ELSE <<>>

RECURSIVE addMigrations(_, _)
addMigrations(reg, ms) ==
    IF ms = <<>> THEN reg
    ELSE addMigrations(addMigration(reg, Head(ms)), Tail(ms))

\* paths: the process runs in Cwd; MigrationsDir exists, MissingDir does not
Cwd == <<"/", "app">>
RelPath == <<"migrations">>
MigrationsDir == <<"/", "app", "migrations">>
MissingDir == <<"/", "app", "none">>
Paths == {RelPath, MigrationsDir, MissingDir}

\* filepath.Abs
Abs(path) == IF path # <<>> /\ Head(path) = "/" THEN path ELSE Cwd \o path

\* os.Stat(dir) does not report IsNotExist
dirExists(dir) == dir = MigrationsDir

isVisitedDirNever(dir) == FALSE

\* Collection.isVisitedDir, the result (the call marks the directory)
isVisitedDir(dir) == dir \in visitedDirs

IdleDisc ==
    [calls |-> 0, path |-> <<>>, err |-> "none", before |-> <<>>,
     after |-> <<>>, revisit |-> FALSE, scanned |-> <<>>, scans |-> 0]

\* another program (or the developer) adds an entry to MigrationsDir
WriteFile(f) ==
    /\ Len(dirFiles) < MaxFiles
    /\ dirFiles' = Append(dirFiles, f)
    /\ UNCHANGED <<registry, unordered, faults, visitedDirs, disc, sql>>
    /\ UNCHANGED dbvars

\* Collection.DiscoverSQLMigrations(path)
Discover(path) ==
    LET dir == Abs(path)
        scanning == ~isVisitedDir(dir) /\ dirExists(dir)
        r == scanFiles(dirFiles, <<>>)
        ms == IF scanning THEN registered(r) ELSE <<>>
    IN  /\ disc.calls < MaxDiscovers
        /\ visitedDirs' = visitedDirs \cup {dir}
        /\ registry' = addMigrations(registry, ms)
        /\ unordered' =
               (\/ unordered
                \/ \E i \in 1..Len(ms), j \in 1..Len(registry) :
                       registry[j].Version > ms[i].Version
                \/ \E i, j \in 1..Len(ms) :
                       i < j /\ ms[i].Version > ms[j].Version)
        /\ disc' = [calls |-> disc.calls + 1, path |-> path,
                    err |-> IF scanning THEN r.err ELSE "nil",
                    before |-> registry,
                    after |-> addMigrations(registry, ms),
                    revisit |-> dir \in visitedDirs,
                    scanned |-> IF scanning THEN dirFiles ELSE disc.scanned,
                    scans |-> disc.scans + (IF scanning THEN 1 ELSE 0)]
        /\ UNCHANGED <<faults, dirFiles, sql>>
        /\ UNCHANGED dbvars

\* ------------------------------------------------------- SQL actions
\* bytes.HasPrefix(b, "--gopg:") and the rest of the line
Directive == "--gopg:"

isDirectiveNever(line) == FALSE

isDirective(line) == line # <<>> /\ Head(line) = Directive

\* the scanner loop of the closure: a query is the lines gathered since the
\* last split, each followed by a newline; an unknown directive ends the
\* loop with an error
RECURSIVE splitQueries(_, _, _)
splitQueries(lines, query, queries) ==
    IF lines = <<>>
    THEN [err |-> "nil",
          queries |-> IF Len(query) > 0 THEN Append(queries, query)
                      ELSE queries]
    ELSE IF isDirective(Head(lines))
    THEN IF Tail(Head(lines)) = <<"split">>
         THEN splitQueries(Tail(lines), <<>>, Append(queries, query))
         ELSE [err |-> "directive", queries |-> queries]
    ELSE splitQueries(Tail(lines), query \o Head(lines) \o <<"\n">>, queries)

needsConnNever(n) == FALSE

\* `if len(queries) > 1`: a connection is checked out of a *pg.DB
needsConn(n) == n > 1

IdleSQL ==
    [pc |-> "idle", handle |-> "", db |-> "", conn |-> 0, body |-> <<>>,
     queries |-> <<>>, i |-> 0, log |-> <<>>, err |-> "nil", runs |-> 0]

\* the closure is called with handle db (runUp / runDown pass the
\* transaction for a flagged record, the handle of Run's caller otherwise):
\* the file is read and split, the connection is checked out
SQLOpen(n, dirn, ambient, k) ==
    LET m == registry[n]
        flagged == IF dirn = "up" THEN m.UpTx ELSE m.DownTx
        h == IF flagged THEN "tx" ELSE ambient
        body == IF dirn = "up" THEN m.UpBody ELSE m.DownBody
        r == splitQueries(body, <<>>, <<>>)
        checkout == r.err = "nil" /\ needsConn(Len(r.queries)) /\ h = "pool"
        bound == h # "pool" \/ checkout
        f == [IdleSQL EXCEPT !.handle = h, !.body = body,
                             !.queries = r.queries, !.runs = sql.runs + 1,
                             !.conn = IF bound THEN k ELSE 0]
    IN  /\ sql.pc \in {"idle", "done"}
        /\ sql.runs < MaxSQLRuns
        /\ n \in 1..Len(registry)
        /\ "UpBody" \in DOMAIN m
        /\ IF dirn = "up" THEN m.HasUp ELSE m.HasDown
        /\ ~bound => k = 1
        /\ sql' = IF r.err # "nil"
                  THEN [f EXCEPT !.pc = "done", !.err = r.err]
                  ELSE [f EXCEPT !.pc = "exec", !.i = 1,
                                 !.db = IF checkout THEN "conn" ELSE h]
        /\ UNCHANGED <<registry, unordered, faults, dirFiles, visitedDirs,
                       disc>>
        /\ UNCHANGED dbvars

\* db.Exec(q) succeeds; a *pg.DB runs it on any connection of its pool, a
\* connection or a transaction on the connection it is bound to
SQLExec(c) ==
    /\ sql.pc = "exec" /\ sql.i <= Len(sql.queries)
    /\ sql.db # "pool" => c = sql.conn
    /\ sql' = [sql EXCEPT !.i = @ + 1,
                          !.log = Append(@, [q |-> sql.queries[sql.i],
                                             via |-> sql.db, conn |-> c])]
    /\ UNCHANGED <<registry, unordered, faults, dirFiles, visitedDirs, disc>>
    /\ UNCHANGED dbvars

\* db.Exec(q) returns an error: the closure returns it
SQLExecFail ==
    /\ sql.pc = "exec" /\ sql.i <= Len(sql.queries)
    /\ faults > 0
    /\ faults' = faults - 1
    /\ sql' = [sql EXCEPT !.pc = "done", !.err = "exec"]
    /\ UNCHANGED <<registry, unordered, dirFiles, visitedDirs, disc>>
    /\ UNCHANGED dbvars

\* the loop over the queries is over: the closure returns nil
SQLReturn ==
    /\ sql.pc = "exec" /\ sql.i > Len(sql.queries)
    /\ sql' = [sql EXCEPT !.pc = "done"]
    /\ UNCHANGED <<registry, unordered, faults, dirFiles, visitedDirs, disc>>
    /\ UNCHANGED dbvars

\* ------------------------------------ registration from several goroutines
mutexFreeAlways(holder) == TRUE

\* c.mu.Lock() returns when no goroutine holds the mutex
mutexFree(holder) == holder = 0

IdleGor ==
    [pc |-> "idle", op |-> "", dir |-> <<>>, seen |-> FALSE,
     pending |-> <<>>, local |-> <<>>, err |-> "none", started |-> 0]

RaceCalls == gor[1].started + gor[2].started

\* the call of goroutine g returns e
GoReturn(g, f, e) ==
    gor' = [gor EXCEPT ![g] =
               [f EXCEPT !.pc = "idle", !.err = e, !.pending = <<>>,
                         !.local = <<>>]]

\* a goroutine calls NewCollection / Register for record m (autodiscovery
\* disabled): addMigration(m) is next
GoRegister(g, m) ==
    /\ gor[g].pc = "idle"
    /\ RaceCalls < MaxRaceCalls
    /\ gor' = [gor EXCEPT ![g] =
           [IdleGor EXCEPT !.pc = "addEnter", !.op = "register",
                           !.pending = <<m>>, !.started = gor[g].started + 1]]
    /\ UNCHANGED <<registry, unordered, faults, mu, added, call>>
    /\ UNCHANGED <<sqlvars, dbvars>>

\* a goroutine calls DiscoverSQLMigrations(path): filepath.Abs
GoDiscover(g, path) ==
    /\ gor[g].pc = "idle"
    /\ RaceCalls < MaxRaceCalls
    /\ gor' = [gor EXCEPT ![g] =
           [IdleGor EXCEPT !.pc = "visitEnter", !.op = "discover",
                           !.dir = Abs(path), !.started = gor[g].started + 1]]
    /\ UNCHANGED <<registry, unordered, faults, mu, added, call>>
    /\ UNCHANGED <<sqlvars, dbvars>>

\* isVisitedDir: the mutex is taken and the map is looked up
VisitEnter(g) ==
    /\ gor[g].pc = "visitEnter"
    /\ mutexFree(mu)
    /\ mu' = g
    /\ gor' = [gor EXCEPT ![g].pc = "visitExit",
                          ![g].seen = (gor[g].dir \in visitedDirs)]
    /\ UNCHANGED <<registry, unordered, faults, added, call>>
    /\ UNCHANGED <<sqlvars, dbvars>>

\* isVisitedDir: a directory not seen is marked, the mutex is released;
\* DiscoverSQLMigrations returns nil for a directory seen
VisitExit(g) ==
    LET f == gor[g]
    IN  /\ f.pc = "visitExit"
        /\ mu' = 0
        /\ visitedDirs' = visitedDirs \cup {f.dir}
        /\ IF f.seen THEN GoReturn(g, f, "nil")
           ELSE gor' = [gor EXCEPT ![g].pc = "scan"]
        /\ UNCHANGED <<registry, unordered, faults, added, call, dirFiles,
                       disc, sql>>
        /\ UNCHANGED dbvars

\* os.Stat, ioutil.ReadDir and the loop over the entries
GoScan(g) ==
    LET f == gor[g]
        r == scanFiles(dirFiles, <<>>)
    IN  /\ f.pc = "scan"
        /\ IF ~dirExists(f.dir) THEN GoReturn(g, f, "nil") /\ UNCHANGED disc
           ELSE /\ disc' = [disc EXCEPT !.scans = @ + 1]
                /\ IF registered(r) = <<>> THEN GoReturn(g, f, r.err)
                   ELSE gor' = [gor EXCEPT ![g].pc = "addEnter",
                                           ![g].pending = registered(r)]
        /\ UNCHANGED <<registry, unordered, faults, mu, added, call, dirFiles,
                       visitedDirs, sql>>
        /\ UNCHANGED dbvars

\* addMigration: the mutex is taken and c.migrations is read
AddEnter(g) ==
    LET f == gor[g]
    IN  /\ f.pc = "addEnter"
        /\ mutexFree(mu)
        /\ mu' = g
        /\ added' = Append(added, Head(f.pending))
        /\ gor' = [gor EXCEPT ![g].pc = "addExit", ![g].local = registry]
        /\ UNCHANGED <<registry, unordered, faults, call>>
        /\ UNCHANGED <<sqlvars, dbvars>>

\* addMigration: c.migrations is written, the mutex is released; the call
\* returns after its last record
AddExit(g) ==
    LET f == gor[g]
        m == Head(f.pending)
    IN  /\ f.pc = "addExit"
        /\ mu' = 0
        /\ registry' = addMigration(f.local, m)
        /\ unordered' = (unordered \/ \E i \in 1..Len(f.local) :
                                          f.local[i].Version > m.Version)
        /\ IF Len(f.pending) = 1 THEN GoReturn(g, f, "nil")
           ELSE gor' = [gor EXCEPT ![g].pc = "addEnter",
                                   ![g].pending = Tail(f.pending),
                                   ![g].local = <<>>]
        /\ UNCHANGED <<faults, added, call>>
        /\ UNCHANGED <<sqlvars, dbvars>>

\* ------------------------------------------- direct calls of the ledger API
IdleCall ==
    [op |-> "none", err |-> "none", version |-> 0, table0 |-> FALSE, n |-> 0]

\* Collection.Version(db) called by the program: one SELECT, which fails
\* when the table is not there
CallVersion ==
    /\ call.n < MaxCalls
    /\ call' = [op |-> "Version", table0 |-> tableExists, n |-> call.n + 1,
                err |-> IF tableExists THEN "nil" ELSE "no_relation",
                version |-> IF tableExists THEN Version(ledger) ELSE 0]
    /\ UNCHANGED <<registry, unordered, faults, mu, gor, added>>
    /\ UNCHANGED <<sqlvars, dbvars>>

\* Collection.SetVersion(db, v) called by the program on a handle that
\* commits each statement: one INSERT
CallSetVersion(v) ==
    /\ call.n < MaxCalls
    /\ call' = [op |-> "SetVersion", table0 |-> tableExists,
                n |-> call.n + 1, version |-> v,
                err |-> IF tableExists THEN "nil" ELSE "no_relation"]
    /\ ledger' = IF tableExists THEN Append(ledger, v) ELSE ledger
    /\ UNCHANGED <<registry, unordered, faults, mu, gor, added>>
    /\ UNCHANGED <<sqlvars, tableExists, lockSupported, txs, applied, upExec,
                   run, runs>>

\* ---------------------------------------------------------- specifications
InitDB ==
    /\ registry = <<>>
    /\ unordered = FALSE
    /\ ledger = <<>>
    /\ txs = [p \in Procs |-> <<>>]
    /\ applied = [v \in Versions |-> 0]
    /\ upExec = [v \in Versions |-> 0]
    /\ run = [p \in Procs |-> IdleFrame]
    /\ runs = 0
    /\ dirFiles = <<>>
    /\ visitedDirs = {}
    /\ disc = IdleDisc
    /\ sql = IdleSQL
    /\ mu = 0
    /\ gor = [g \in Procs |-> IdleGor]
    /\ added = <<>>
    /\ call = IdleCall

\* the argument strings a caller passes after the command
Targets == {<<"2">>, <<"+", "4">>, <<"-", "1">>, <<"x">>}

Commands ==
    {<<"init">>, <<"version">>, <<"up">>, <<"down">>, <<"reset">>}
    \cup {<<"set_version", t>> : t \in Targets}

\* records as Register / RegisterTx build them (one flag for both ways)
Records(txFlags, downs) ==
    {Migration(v, t, t, d) : v \in Versions, t \in txFlags, d \in downs}

\* Spec: one caller, a database that never fails, every command
Init ==
    /\ InitDB
    /\ tableExists \in BOOLEAN
    /\ lockSupported \in BOOLEAN
    /\ faults = 0

Step(p) ==
    \/ begin(p) \/ Dispatch(p) \/ UpLoop(p) \/ runUp(p) \/ UpCommit(p)
    \/ down(p) \/ ResetCommit(p) \/ RunSetVersion(p) \/ Final(p)

Next ==
    /\ UNCHANGED <<sqlvars, apivars>>
    /\ \/ \E m \in Records({FALSE}, BOOLEAN) : runs = 0 /\ Register(m)
       \/ \E a \in Commands : runs < MaxRuns /\ StartRun(1, a)
       \/ Step(1)

Spec == Init /\ [][Next]_vars

\* SpecRound: one caller, a database that never fails, up and down only
InitRound ==
    /\ InitDB
    /\ tableExists = TRUE
    /\ lockSupported = TRUE
    /\ faults = 0

StepUp(p) ==
    \/ begin(p) \/ Dispatch(p) \/ UpLoop(p) \/ runUp(p) \/ UpCommit(p)
    \/ Final(p)

NextRound ==
    /\ UNCHANGED <<sqlvars, apivars>>
    /\ \/ \E m \in Records({FALSE}, BOOLEAN) : runs = 0 /\ Register(m)
       \/ \E a \in {<<"up">>, <<"down">>} : runs < MaxRoundRuns /\ StartRun(1, a)
       \/ StepUp(1) \/ down(1)

SpecRound == InitRound /\ [][NextRound]_vars

\* SpecFault: one caller, a database that fails up to MaxFaults statements
InitFault ==
    /\ InitDB
    /\ tableExists = TRUE
    /\ lockSupported \in BOOLEAN
    /\ faults = MaxFaults

Failure(p) ==
    \/ \E stmt \in {"action", "set_version"} : runUpFail(p, stmt)
    \/ \E stmt \in {"action", "set_version"} : downFail(p, stmt)
    \/ CommitFail(p)
    \/ Exit(p)

NextFault ==
    /\ UNCHANGED <<sqlvars, apivars>>
    /\ \/ \E m \in Records(BOOLEAN, {TRUE}) : runs = 0 /\ Register(m)
       \/ \E a \in {<<"up">>, <<"down">>, <<"reset">>} :
              runs < MaxFaultRuns /\ StartRun(1, a)
       \/ StepUp(1) \/ down(1) \/ ResetCommit(1)
       \/ Failure(1)

SpecFault == InitFault /\ [][NextFault]_vars

\* SpecConc: two callers run "up" concurrently on a database that never fails
InitConc ==
    /\ InitDB
    /\ tableExists = TRUE
    /\ lockSupported \in BOOLEAN
    /\ faults = 0

NextConc ==
    /\ UNCHANGED <<sqlvars, apivars>>
    /\ \/ \E m \in Records({FALSE}, {TRUE}) : runs = 0 /\ Register(m)
       \/ \E p \in Procs : \E a \in {<<"up">>, <<"up", <<"2">>>>} :
              runs < MaxConcRuns /\ StartRun(p, a)
       \/ \E p \in Procs : StepUp(p)

SpecConc == InitConc /\ [][NextConc]_vars

\* SpecTarget: one caller, a database that never fails, up with and without
\* a target, and down
UpTargets == {<<"0">>, <<"1">>, <<"2">>}

NextTarget ==
    /\ UNCHANGED <<sqlvars, apivars>>
    /\ \/ \E m \in Records({FALSE}, {TRUE}) : runs = 0 /\ Register(m)
       \/ \E a \in {<<"up">>, <<"down">>} \cup {<<"up", t>> : t \in UpTargets} :
              runs < MaxTargetRuns /\ StartRun(1, a)
       \/ StepUp(1) \/ down(1)

SpecTarget == InitRound /\ [][NextTarget]_vars

\* SpecBegin: one caller, every command, a database on which the statements
\* of begin fail up to MaxFaults times
BeginCommands ==
    {<<>>, <<"init">>, <<"version">>, <<"up">>, <<"down">>, <<"reset">>,
     <<"set_version", <<"2">>>>, <<"bogus">>}

InitBegin ==
    /\ InitDB
    /\ tableExists \in BOOLEAN
    /\ lockSupported \in BOOLEAN
    /\ faults = MaxFaults

NextBegin ==
    /\ UNCHANGED <<sqlvars, apivars>>
    /\ \/ \E m \in Records({FALSE}, {TRUE}) : runs = 0 /\ Register(m)
       \/ \E a \in BeginCommands : runs < MaxBeginRuns /\ StartRun(1, a)
       \/ Step(1)
       \/ beginIdleFail(1)
       \/ \E idle \in BOOLEAN, msg \in LockErrors : beginLockFail(1, idle, msg)

SpecBegin == InitBegin /\ [][NextBegin]_vars

\* SpecLedger: one caller, the commands that read and write the ledger with
\* every kind of argument, a database that fails up to MaxFaults statements
LedgerCommands ==
    {<<"version">>, <<"up">>, <<"down">>, <<"reset">>, <<"create">>,
     <<"create", <<"x">>>>, <<"set_version">>, <<"up", <<"x">>>>}
    \cup {<<"set_version", t>> : t \in Targets}

InitLedger ==
    /\ InitDB
    /\ tableExists = TRUE
    /\ lockSupported = TRUE
    /\ faults = MaxFaults

NextLedger ==
    /\ UNCHANGED <<sqlvars, apivars>>
    /\ \/ \E m \in {Migration(v, FALSE, FALSE, TRUE) : v \in {1, 2}} :
              runs = 0 /\ Register(m)
       \/ \E a \in LedgerCommands : runs < MaxLedgerRuns /\ StartRun(1, a)
       \/ StepUp(1) \/ down(1) \/ ResetCommit(1) \/ RunSetVersion(1)
       \/ RunSetVersionFail(1) \/ CommitFail(1)

SpecLedger == InitLedger /\ [][NextLedger]_vars

\* SpecSnap: one caller runs up, down and reset while records are being
\* registered into the live registry
NextSnap ==
    /\ UNCHANGED <<sqlvars, apivars>>
    /\ \/ \E m \in Records({FALSE}, {TRUE}) : Register(m)
       \/ \E a \in {<<"up">>, <<"down">>, <<"reset">>} :
              runs < MaxSnapRuns /\ StartRun(1, a)
       \/ StepUp(1) \/ down(1) \/ ResetCommit(1)

SpecSnap == InitRound /\ [][NextSnap]_vars

\* SpecDiscover: records are registered from Go files and discovered from
\* the migrations directory while entries are added to it
Line == <<"SELECT">>
DiscoverFiles ==
    {File(<<"1">>, TRUE, <<".up", ".sql">>, <<Line>>),
     File(<<"2">>, TRUE, <<".tx", ".up", ".sql">>, <<Line>>),
     File(<<"2">>, TRUE, <<".down", ".sql">>, <<Line>>),
     File(<<"1">>, TRUE, <<".sql">>, <<Line>>),
     File(<<"3">>, TRUE, <<".go">>, <<Line>>),
     [File(<<"3">>, TRUE, <<".up", ".sql">>, <<>>) EXCEPT !.isDir = TRUE]}

InitDiscover ==
    /\ InitDB
    /\ tableExists = TRUE
    /\ lockSupported = TRUE
    /\ faults = 0

NextDiscover ==
    /\ UNCHANGED apivars
    /\ \/ \E v \in {1, 3} :
              /\ Register(Migration(v, FALSE, FALSE, TRUE))
              /\ UNCHANGED <<sqlvars, apivars>>
       \/ \E f \in DiscoverFiles : WriteFile(f)
       \/ \E path \in Paths : Discover(path)

SpecDiscover == InitDiscover /\ [][NextDiscover]_vars

\* SpecSQL: files with and without errors are discovered next to a record
\* registered from a Go file; the discovered actions, of one and of several
\* statements, are executed on every kind of handle, on a database that
\* fails up to MaxFaults statements
Bodies ==
    {<<Line>>,
     <<Line, <<Directive, "split">>, Line>>,
     <<Line, <<Directive, "nosplit">>>>}

SQLFiles ==
    {File(<<"1">>, TRUE, <<".up", ".sql">>, b) : b \in Bodies}
    \cup {File(<<"1">>, TRUE, <<".tx", ".up", ".sql">>,
               <<<<Directive, "split">>, Line, <<Directive, "split">>>>),
          File(<<"1">>, FALSE, <<".up", ".sql">>, <<Line>>),
          File(<<"x">>, TRUE, <<".up", ".sql">>, <<Line>>),
          File(<<"1">>, TRUE, <<".sql">>, <<Line>>)}

InitSQL ==
    /\ InitDB
    /\ tableExists = TRUE
    /\ lockSupported = TRUE
    /\ faults = MaxFaults

NextSQL ==
    /\ UNCHANGED apivars
    /\ \/ /\ registry = <<>>
          /\ Register(Migration(1, FALSE, FALSE, TRUE))
          /\ UNCHANGED <<sqlvars, apivars>>
       \/ \E f \in SQLFiles : WriteFile(f)
       \/ Discover(RelPath)
       \/ \E n \in 1..(MaxRegs + MaxFiles), ambient \in {"pool", "conn"}, k \in Conns :
              SQLOpen(n, "up", ambient, k)
       \/ \E c \in Conns : SQLExec(c)
       \/ SQLExecFail
       \/ SQLReturn

SpecSQL == InitSQL /\ [][NextSQL]_vars

\* SpecSkip: one caller jumps with set_version and runs up while records
\* are being registered, on a database that never fails
NextSkip ==
    /\ UNCHANGED <<sqlvars, apivars>>
    /\ \/ \E m \in Records({FALSE}, {TRUE}) : Register(m)
       \/ \E a \in {<<"up">>, <<"set_version", <<"2">>>>} :
              runs < MaxSkipRuns /\ StartRun(1, a)
       \/ StepUp(1) \/ RunSetVersion(1)

SpecSkip == InitRound /\ [][NextSkip]_vars

\* SpecMix: two callers run up, down and reset concurrently on an engine
\* with the table lock and a database that never fails
NextMix ==
    /\ UNCHANGED <<sqlvars, apivars>>
    /\ \/ \E m \in {Migration(v, FALSE, FALSE, TRUE) : v \in {1, 2}} :
              runs = 0 /\ Register(m)
       \/ \E p \in Procs : \E a \in {<<"up">>, <<"down">>, <<"reset">>} :
              runs < MaxMixRuns /\ StartRun(p, a)
       \/ \E p \in Procs : StepUp(p) \/ down(p) \/ ResetCommit(p)

SpecMix == InitRound /\ [][NextMix]_vars

\* SpecLive: two callers run "up" concurrently on an engine with the table
\* lock and a database that never fails. Each invocation is a running
\* process that keeps taking steps; a caller blocked in LOCK TABLE is
\* resumed by the database once the lock is released
LiveStep(p) == UNCHANGED <<sqlvars, apivars>> /\ StepUp(p)

NextLive ==
    \/ /\ UNCHANGED <<sqlvars, apivars>>
       /\ \/ \E m \in Records({FALSE}, {TRUE}) : runs = 0 /\ Register(m)
          \/ \E p \in Procs : runs < MaxLiveRuns /\ StartRun(p, <<"up">>)
    \/ \E p \in Procs : LiveStep(p)

SpecLive ==
    /\ InitRound
    /\ [][NextLive]_vars
    /\ \A p \in Procs : WF_vars(LiveStep(p))

\* SpecReset: one caller brings the ledger to some version with up and
\* set_version and runs reset, over records with and without a down action,
\* on a database that never fails. The invocation is a running process that
\* keeps taking steps
ResetStep == UNCHANGED <<sqlvars, apivars>> /\ Step(1)

NextReset ==
    \/ /\ UNCHANGED <<sqlvars, apivars>>
       /\ \/ \E m \in Records({FALSE}, BOOLEAN) : runs = 0 /\ Register(m)
          \/ \E a \in {<<"up">>, <<"reset">>}
                      \cup {<<"set_version", t>> : t \in Targets} :
                 runs < MaxResetRuns /\ StartRun(1, a)
    \/ ResetStep

SpecReset ==
    /\ InitRound
    /\ [][NextReset]_vars
    /\ WF_vars(ResetStep)

\* SpecParse: one SQL file made of every sequence of up to MaxLines lines
\* (a statement line, a blank line, the split directive, another directive)
\* is discovered and its action is executed on every kind of handle, on a
\* database that never fails
Blank == <<>>
SplitLine == <<Directive, "split">>
OtherDirective == <<Directive, "nosplit">>
ParseLines == {Line, Blank, SplitLine, OtherDirective}

ParseBodies ==
    UNION {[1..n -> ParseLines] : n \in 0..MaxLines}

NextParse ==
    /\ UNCHANGED apivars
    /\ \/ \E b \in ParseBodies :
              /\ dirFiles = <<>>
              /\ WriteFile(File(<<"1">>, TRUE, <<".up", ".sql">>, b))
       \/ Discover(RelPath)
       \/ \E ambient \in {"pool", "conn"}, k \in Conns :
              SQLOpen(1, "up", ambient, k)
       \/ \E c \in Conns : SQLExec(c)
       \/ SQLReturn

SpecParse == InitDiscover /\ [][NextParse]_vars

\* SpecRace: two goroutines of one process register records and discover
\* the migrations directory concurrently on one registry; the files are in
\* place before the first call
RaceFiles ==
    {File(<<"1">>, TRUE, <<".up", ".sql">>, <<Line>>),
     File(<<"2">>, TRUE, <<".tx", ".up", ".sql">>, <<Line>>),
     File(<<"3">>, TRUE, <<".sql">>, <<Line>>)}

RaceStep(g) ==
    \/ VisitEnter(g) \/ VisitExit(g) \/ GoScan(g) \/ AddEnter(g)
    \/ AddExit(g)

NextRace ==
    \/ \E f \in RaceFiles :
           RaceCalls = 0 /\ WriteFile(f) /\ UNCHANGED apivars
    \/ \E g \in Procs : \E v \in {2, 3} :
           GoRegister(g, Migration(v, FALSE, FALSE, TRUE))
    \/ \E g \in Procs : \E path \in {RelPath, MissingDir} :
           GoDiscover(g, path)
    \/ \E g \in Procs : RaceStep(g)

SpecRace == InitDiscover /\ [][NextRace]_vars

\* SpecCall: the program calls Version and SetVersion directly and runs
\* init and version, on a database with or without the ledger table
InitCall ==
    /\ InitDB
    /\ tableExists \in BOOLEAN
    /\ lockSupported = TRUE
    /\ faults = 0

NextCall ==
    \/ CallVersion
    \/ \E v \in Versions : CallSetVersion(v)
    \/ /\ UNCHANGED <<sqlvars, apivars>>
       /\ \/ \E a \in {<<"init">>, <<"version">>} :
                 runs < MaxCalls /\ StartRun(1, a)
          \/ begin(1) \/ Dispatch(1) \/ Final(1)

SpecCall == InitCall /\ [][NextCall]_vars

\* ------------------------------------------------------------- properties
RowCount(v) == Cardinality({i \in 1..Len(ledger) : ledger[i] = v})
OpenTxs == {<<q, i>> \in Procs \X (1..(2 * MaxVersion + 4)) :
               i <= Len(txs[q]) /\ txs[q][i].st = "open"}
VersionsOf(ms) == [i \in 1..Len(ms) |-> ms[i].Version]
VersionSet(ms) == {ms[i].Version : i \in 1..Len(ms)}
Executed(f) == {f.trace[i][2] : i \in 1..Len(f.trace)}
Finished(f, cmd) == f.pc = "done" /\ f.cmd = cmd
StepFailed(f) == f.err # "nil" /\ f.at \in {"runUp", "upCommit"}

\* C1: with LOCK TABLE supported, in every interleaving of concurrent
\* Run("up") invocations no record's up action is executed twice, the ledger
\* holds at most one row per record, and at most one invocation at a time has
\* an open (lock-holding) transaction, so the read of the version and the
\* append of the step are never interleaved with another caller's.
C1_UpSerialized ==
    lockSupported =>
        /\ \A v \in Versions : upExec[v] <= 1 /\ RowCount(v) <= 1
        /\ Cardinality(OpenTxs) <= 1

C1_Witness ==
    /\ lockSupported
    /\ \A p \in Procs : /\ Finished(run[p], "up")
                        /\ run[p].err = "nil"
                        /\ run[p].trace # <<>>

\* C2: when a step of Run("up") fails at record mi, the rows of the records
\* applied before it are committed (in order, nothing else appended), no row
\* for mi or a later record is appended by this invocation, no up action of a
\* later record was executed, and Run returns the error.
C2_PriorStepsStay ==
    LET f == run[1]
        prior == SelectSeq(SubSeq(f.migrations, 1, f.idx - 1),
                           LAMBDA m : m.Version > f.oldVersion)
    IN  (Finished(f, "up") /\ StepFailed(f)) =>
            /\ ledger = f.ledger0 \o VersionsOf(prior)
            /\ Executed(f) \subseteq
                   {f.migrations[j].Version : j \in 1..f.idx}
            /\ \A j \in f.idx..Len(f.migrations) :
                   \A i \in (Len(f.ledger0) + 1)..Len(ledger) :
                       ledger[i] # f.migrations[j].Version

C2_Witness ==
    /\ Finished(run[1], "up") /\ StepFailed(run[1])
    /\ run[1].idx >= 2
    /\ Len(ledger) > Len(run[1].ledger0)

\* C3: when Run has returned, every transaction it opened has been ended by
\* a Commit or a Rollback, also the one of a step that failed at a later
\* position of an up batch or of a reset loop.
C3_EveryTxEnded ==
    \A p \in Procs :
        run[p].pc = "done" =>
            \A i \in 1..Len(txs[p]) :
                txs[p][i].st \in {"committed", "rolledback"}

\* C4 as stated: over any sequence of up invocations with failing steps, no
\* record's up action takes durable effect more than once without an
\* intervening down.
C4_AppliedOnce == \A v \in Versions : applied[v] <= 1

\* C4 amended: the same for every record flagged transactional (UpTx): its
\* effect is durable only together with its ledger row.
C4_TxAppliedOnce ==
    \A v \in Versions :
        (\A i \in 1..Len(registry) : registry[i].Version = v => registry[i].UpTx)
            => applied[v] <= 1

C4_Witness ==
    LET f == run[1]
    IN  /\ Finished(f, "up") /\ f.err = "nil"
        /\ f.prev.a = <<"up">> /\ f.prev.err \in {"set_version", "commit"}
        /\ f.prev.newVersion = f.newVersion
        /\ \E i \in 1..Len(f.migrations) :
               /\ f.migrations[i].UpTx
               /\ f.trace = <<<<"up", f.migrations[i].Version>>>>
               /\ applied[f.migrations[i].Version] = 1

Distinct(ms) == Cardinality(VersionSet(ms)) = Len(ms)
Ascending(tr) == \A i, j \in 1..Len(tr) : i < j => tr[i][2] < tr[j][2]
AllUp(tr) == \A i \in 1..Len(tr) : tr[i][1] = "up"

\* C5: for a registry R of distinct positive versions registered in any
\* order and an empty ledger, Run("up") without target executes the up
\* actions in strictly ascending version order, once per record, returns
\* (0, max(R)) without error, and the current version is then max(R).
C5_UpFromEmpty ==
    LET f == run[1]
        R == VersionSet(f.migrations)
    IN  (Finished(f, "up") /\ Len(f.a) = 1 /\ f.ledger0 = <<>>
         /\ R # {} /\ Distinct(f.migrations)) =>
            /\ f.err = "nil"
            /\ AllUp(f.trace) /\ Ascending(f.trace)
            /\ Executed(f) = R /\ Len(f.trace) = Cardinality(R)
            /\ f.oldVersion = 0 /\ f.newVersion = Max(R)
            /\ Version(ledger) = Max(R)

C5_Witness ==
    /\ Finished(run[1], "up") /\ run[1].err = "nil"
    /\ run[1].ledger0 = <<>> /\ unordered
    /\ Len(run[1].trace) = 3

\* the outcome of one down step on a ledger at version old, as C6 amended
\* describes it: the record of greatest version <= old is reverted
DownOutcome(f, old) ==
    LET below == {v \in VersionSet(f.migrations) : v <= old}
        v == Max(below)
        m == CHOOSE m \in {f.migrations[i] : i \in 1..Len(f.migrations)} :
                 m.Version = v
    IN  IF old = 0 \/ below = {}
        THEN [acts |-> <<>>, rows |-> <<>>, new |-> old]
        ELSE [acts |-> IF m.HasDown THEN <<<<"down", v>>>> ELSE <<>>,
              rows |-> <<v - 1>>, new |-> v - 1]

\* C6 as stated: Run("down") acts only on the record whose version equals
\* the current version; when no record has exactly that version it executes
\* no down action, appends no row and returns (old, old).
C6_DownExactOnly ==
    LET f == run[1]
    IN  (Finished(f, "down") /\ f.err = "nil"
         /\ f.oldVersion \notin VersionSet(f.migrations)) =>
            /\ f.trace = <<>>
            /\ ledger = f.ledger0
            /\ f.newVersion = f.oldVersion

\* C6 amended: Run("down") acts on the record with the greatest version
\* less than or equal to the current version (after a gap: the next-lower
\* registered one): it executes its down action if it has one, appends that
\* version minus 1 and returns it; only when the current version is 0 or no
\* record has a version <= it does it execute nothing, append nothing and
\* return (old, old).
C6_DownAtOrBelow ==
    LET f == run[1]
        r == DownOutcome(f, f.oldVersion)
    IN  (Finished(f, "down") /\ Distinct(f.migrations) /\ tableExists) =>
            /\ f.err = "nil"
            /\ f.oldVersion = Version(f.ledger0)
            /\ f.trace = r.acts
            /\ ledger = f.ledger0 \o r.rows
            /\ f.newVersion = r.new

C6_Witness ==
    LET f == run[1]
    IN  /\ Finished(f, "down") /\ f.err = "nil"
        /\ f.oldVersion \notin VersionSet(f.migrations)
        /\ f.trace # <<>>
        /\ f.newVersion < f.oldVersion - 1

NoChangeDown(o) == o.a = <<"down">> /\ o.err = "nil" /\ o.oldVersion = o.newVersion
Reapplied(f) ==
    /\ f.err = "nil"
    /\ AllUp(f.trace) /\ Ascending(f.trace)
    /\ Executed(f) = VersionSet(f.migrations)

\* C7 as stated: after up has applied records, repeating Run("down") until
\* it reports no change leaves the current version at 0, and a following
\* Run("up") executes the up action of every record again, lowest first.
C7_RoundTripToZero ==
    LET f == run[1]
    IN  /\ (Finished(f, "down") /\ NoChangeDown(Outcome(f)) /\ ledger # <<>>
            /\ Distinct(f.migrations)) => Version(ledger) = 0
        /\ (Finished(f, "up") /\ NoChangeDown(f.prev) /\ f.ledger0 # <<>>
            /\ Distinct(f.migrations)) => Reapplied(f)

\* C7 amended: the repeated down leaves the current version at min(R) - 1,
\* which is 0 only when the lowest registered version is 1, and a following
\* Run("up") executes the up action of every record again, lowest first.
C7_RoundTripToMin ==
    LET f == run[1]
    IN  /\ (Finished(f, "down") /\ NoChangeDown(Outcome(f)) /\ ledger # <<>>
            /\ Distinct(f.migrations)) =>
               Version(ledger) = Min(VersionSet(f.migrations)) - 1
        /\ (Finished(f, "up") /\ NoChangeDown(f.prev) /\ f.ledger0 # <<>>
            /\ Distinct(f.migrations)) => Reapplied(f)

C7_Witness ==
    LET f == run[1]
    IN  /\ Finished(f, "up") /\ NoChangeDown(f.prev) /\ f.ledger0 # <<>>
        /\ Distinct(f.migrations)
        /\ Version(f.ledger0) >= 1
        /\ Len(f.trace) >= 2

Contiguous(ms) == Len(ms) >= 1 /\ VersionsOf(ms) = [i \in 1..Len(ms) |-> i]

\* C8: with versions 1..n registered and the ledger at v, 1 <= v <= n,
\* Run("down") executes exactly the down action of record v (none if the
\* record has no Down), appends v-1 and returns (v, v-1); at version 0 it
\* executes nothing, appends nothing and returns (0, 0), each time.
C8_DownContiguous ==
    LET f == run[1]
        v == Version(f.ledger0)
    IN  (Finished(f, "down") /\ Contiguous(f.migrations)
         /\ v \in 0..Len(f.migrations)) =>
            /\ f.err = "nil"
            /\ f.oldVersion = v
            /\ IF v = 0
               THEN f.trace = <<>> /\ ledger = f.ledger0 /\ f.newVersion = 0
               ELSE /\ f.trace = IF f.migrations[v].HasDown
                                 THEN <<<<"down", v>>>> ELSE <<>>
                    /\ ledger = Append(f.ledger0, v - 1)
                    /\ f.newVersion = v - 1

C8_Witness ==
    LET f == run[1]
    IN  /\ Finished(f, "down") /\ Contiguous(f.migrations)
        /\ Len(f.migrations) = 3 /\ f.oldVersion = 2
        /\ f.trace = <<<<"down", 2>>>>
        /\ f.newVersion = 1

\* the fold of the down step from version v to its fixed point
RECURSIVE DownFold(_, _)
DownFold(f, v) ==
    LET r == DownOutcome(f, v)
    IN  IF r.new = v THEN [acts |-> <<>>, rows |-> <<>>, new |-> v, steps |-> 1]
        ELSE LET rest == DownFold(f, r.new)
             IN  [acts |-> r.acts \o rest.acts, rows |-> r.rows \o rest.rows,
                  new |-> rest.new, steps |-> rest.steps + 1]

CommittedTxs(p) == {i \in 1..Len(txs[p]) : txs[p][i].st = "committed"}

\* C9: Run("reset") does what repeating the down step until the version
\* stops decreasing does: the same down actions in the same order, the same
\* rows, one committed transaction per iteration (each holding at most one
\* row), and it returns (old, v*) with v* the fixed point of down.
C9_ResetIsDownFold ==
    LET f == run[1]
        r == DownFold(f, f.oldVersion)
    IN  (Finished(f, "reset") /\ Distinct(f.migrations) /\ tableExists) =>
            /\ f.err = "nil"
            /\ f.oldVersion = Version(f.ledger0)
            /\ f.trace = r.acts
            /\ ledger = f.ledger0 \o r.rows
            /\ f.newVersion = r.new
            /\ DownOutcome(f, f.newVersion).new = f.newVersion
            /\ Cardinality(CommittedTxs(1)) = r.steps
            /\ \A i \in CommittedTxs(1) : Len(txs[1][i].rows) <= 1

C9_Witness ==
    LET f == run[1]
    IN  /\ Finished(f, "reset") /\ f.err = "nil"
        /\ Len(f.trace) >= 2
        /\ Len(ledger) >= Len(f.ledger0) + 2

\* the integer an argument string denotes
Denoted(s) ==
    CASE s = <<"2">> -> 2 [] s = <<"+", "4">> -> 4 [] s = <<"-", "1">> -> 0 - 1
Numerals == {<<"2">>, <<"+", "4">>, <<"-", "1">>}

\* C10: Run("set_version", n) appends n without executing any action and
\* returns (old, n); a following Run("version") returns (n, n); whether or
\* not a record n is registered, whatever the relation of n and old.
C10_SetVersion ==
    LET f == run[1]
    IN  /\ (Finished(f, "set_version") /\ Len(f.a) = 2 /\ f.a[2] \in Numerals
            /\ Distinct(f.migrations) /\ tableExists) =>
               /\ f.err = "nil"
               /\ f.trace = <<>>
               /\ ledger = Append(f.ledger0, Denoted(f.a[2]))
               /\ f.oldVersion = Version(f.ledger0)
               /\ f.newVersion = Denoted(f.a[2])
        /\ (Finished(f, "version") /\ Len(f.prev.a) = 2 /\ f.prev.err = "nil"
            /\ Distinct(f.migrations)) =>
               /\ f.err = "nil"
               /\ f.trace = <<>>
               /\ f.oldVersion = Denoted(f.prev.a[2])
               /\ f.newVersion = Denoted(f.prev.a[2])

C10_Witness ==
    LET f == run[1]
    IN  /\ Finished(f, "version") /\ f.err = "nil"
        /\ Len(f.prev.a) = 2 /\ f.prev.err = "nil"
        /\ f.migrations # <<>>
        /\ f.newVersion \notin VersionSet(f.migrations)
        /\ f.newVersion = 4

\* C11: after a successful Run("up") without target, an immediately following
\* Run("up") without target executes no up action, appends no row and
\* returns (v, v) with v the current version.
C11_UpTwiceNoop ==
    LET f == run[1]
    IN  (Finished(f, "up") /\ f.a = <<"up">>
         /\ f.prev.a = <<"up">> /\ f.prev.err = "nil") =>
            /\ f.err = "nil"
            /\ f.trace = <<>>
            /\ ledger = f.ledger0
            /\ f.oldVersion = Version(ledger)
            /\ f.newVersion = f.oldVersion

C11_Witness ==
    LET f == run[1]
    IN  /\ Finished(f, "up") /\ f.a = <<"up">> /\ f.err = "nil"
        /\ f.prev.a = <<"up">> /\ f.prev.err = "nil"
        /\ f.prev.newVersion > f.prev.oldVersion
        /\ Len(f.migrations) >= 2
        /\ f.oldVersion = Max(VersionSet(f.migrations))

\* the integer a target argument denotes
UpTarget(s) == CASE s = <<"0">> -> 0 [] s = <<"1">> -> 1 [] s = <<"2">> -> 2

\* the records an up from version old to target t has to apply
UpDue(f, old, t) ==
    SelectSeq(f.migrations, LAMBDA m : old < m.Version /\ m.Version <= t)

\* C12: Run("up", t) executes the up action of exactly the records m with
\* current version < m.Version <= t, in ascending order, never that of a
\* record above t, and returns as new version the greatest such version, or
\* the old version when there is none.
C12_UpToTarget ==
    LET f == run[1]
        t == UpTarget(f.a[2])
        due == UpDue(f, Version(f.ledger0), t)
    IN  (Finished(f, "up") /\ Len(f.a) = 2 /\ Distinct(f.migrations)) =>
            /\ f.err = "nil"
            /\ f.oldVersion = Version(f.ledger0)
            /\ f.trace = [i \in 1..Len(due) |-> <<"up", due[i].Version>>]
            /\ Ascending(f.trace)
            /\ \A v \in Executed(f) : v <= t
            /\ ledger = f.ledger0 \o VersionsOf(due)
            /\ f.newVersion = IF due = <<>> THEN f.oldVersion
                              ELSE Max(VersionSet(due))

C12_Witness ==
    LET f == run[1]
    IN  /\ Finished(f, "up") /\ f.a = <<"up", <<"2">>>> /\ f.err = "nil"
        /\ VersionSet(f.migrations) = {1, 2, 3}
        /\ f.trace = <<<<"up", 1>>, <<"up", 2>>>>
        /\ f.newVersion = 2

\* C13: Run("up", t) with t below the current version is a no-op: it returns
\* (old, old) without error, executes no action and appends no row; so is
\* Run("up", 0) on an empty ledger.
C13_UpBelowIsNoop ==
    LET f == run[1]
        t == UpTarget(f.a[2])
    IN  (Finished(f, "up") /\ Len(f.a) = 2 /\ Distinct(f.migrations)
         /\ (t < Version(f.ledger0) \/ (t = 0 /\ f.ledger0 = <<>>))) =>
            /\ f.err = "nil"
            /\ f.trace = <<>>
            /\ ledger = f.ledger0
            /\ f.oldVersion = Version(f.ledger0)
            /\ f.newVersion = f.oldVersion

C13_Witness ==
    LET f == run[1]
    IN  /\ Finished(f, "up") /\ f.a = <<"up", <<"1">>>> /\ f.err = "nil"
        /\ f.oldVersion = 2 /\ f.newVersion = 2
        /\ VersionSet(f.migrations) = {1, 2, 3}

RECURSIVE CommittedRows(_)
CommittedRows(ts) ==
    IF ts = <<>> THEN <<>>
    ELSE (IF Head(ts).st = "committed" THEN Head(ts).rows ELSE <<>>)
         \o CommittedRows(Tail(ts))

\* C14: when LOCK TABLE fails with an error that is not a recognised
\* "unsupported" one (a lock timeout), Run fails with that error: the
\* transaction is rolled back, the version is not read, no action is
\* executed and no row is appended by the failed begin or after it.
C14_LockErrorIsFatal ==
    LET f == run[1]
        ts == txs[1]
    IN  (f.pc = "done" /\ f.lockErr = LockTimeoutErr) =>
            /\ f.err = "lock"
            /\ f.at \in {"begin", "upBegin", "resetBegin"}
            /\ ts # <<>>
            /\ ts[Len(ts)] = [NewTx(FALSE) EXCEPT !.st = "rolledback"]
            /\ \A i \in 1..Len(ts) : ts[i].st \in {"committed", "rolledback"}
            /\ f.version = 0
            /\ ledger = f.ledger0 \o CommittedRows(ts)
            /\ Len(f.trace) <= Cardinality(CommittedTxs(1))
            /\ f.at = "begin" =>
                   /\ f.oldVersion = 0 /\ f.newVersion = 0
                   /\ f.trace = <<>>
                   /\ ledger = f.ledger0

C14_Witness ==
    LET f == run[1]
    IN  /\ f.pc = "done" /\ f.lockErr = LockTimeoutErr
        /\ f.cmd = "up" /\ f.at = "begin"
        /\ f.migrations # <<>> /\ Distinct(f.migrations)
        /\ Version(ledger) < Max(VersionSet(f.migrations))

\* what a command does on a database whose statements all succeed
ExpectedRun(f) ==
    LET old == Version(f.ledger0)
        due == UpDue(f, old, MaxInt64)
        d == DownOutcome(f, old)
        r == DownFold(f, old)
    IN  CASE f.cmd = "version" ->
                 [err |-> "nil", acts |-> <<>>, rows |-> <<>>, new |-> old]
          [] f.cmd = "up" ->
                 [err |-> "nil",
                  acts |-> [i \in 1..Len(due) |-> <<"up", due[i].Version>>],
                  rows |-> VersionsOf(due),
                  new |-> IF due = <<>> THEN old ELSE Max(VersionSet(due))]
          [] f.cmd = "down" ->
                 [err |-> "nil", acts |-> d.acts, rows |-> d.rows,
                  new |-> d.new]
          [] f.cmd = "reset" ->
                 [err |-> "nil", acts |-> r.acts, rows |-> r.rows,
                  new |-> r.new]
          [] f.cmd = "set_version" ->
                 [err |-> "nil", acts |-> <<>>,
                  rows |-> <<Denoted(f.a[2])>>, new |-> Denoted(f.a[2])]
          [] OTHER ->
                 [err |-> "unsupported", acts |-> <<>>, rows |-> <<>>,
                  new |-> old]

Completes(f) ==
    LET x == ExpectedRun(f)
    IN  /\ f.err = x.err
        /\ f.oldVersion = Version(f.ledger0)
        /\ f.newVersion = x.new
        /\ f.trace = x.acts
        /\ ledger = f.ledger0 \o x.rows

BeganRun(f) ==
    /\ f.pc = "done" /\ f.cmd # "init" /\ f.table0
    /\ Distinct(f.migrations)

\* C15 as stated: when the SET of the idle timeout fails, or LOCK TABLE
\* fails with the "unsupported" error of one of two alternate engines
\* (CockroachDB, YugabyteDB), begin rolls back, begins a fresh transaction
\* and the command completes as on an engine that supports them; the
\* absorbed error is not returned.
C15_AbsorbsBothEngines ==
    LET f == run[1]
    IN  (BeganRun(f) /\ f.lockErr \in {<<>>, CockroachErr, YugabyteErr}) =>
            Completes(f)

\* C15 for the one engine whose error begin recognises: when the SET of the
\* idle timeout fails, or LOCK TABLE fails with CockroachDB's syntax error,
\* begin rolls back, begins a fresh transaction and the command completes
\* as on an engine that supports them; the absorbed error is not returned.
C15_AbsorbsRecognised ==
    LET f == run[1]
    IN  (BeganRun(f) /\ f.lockErr \in {<<>>, CockroachErr}) => Completes(f)

C15_Witness ==
    LET f == run[1]
    IN  /\ BeganRun(f) /\ f.lockErr = CockroachErr /\ lockSupported
        /\ f.cmd = "up" /\ f.err = "nil"
        /\ Len(f.trace) >= 2
        /\ \E i \in 1..Len(txs[1]) :
               txs[1][i].st = "rolledback" /\ ~txs[1][i].lock

\* C16: for every command other than init, when the ledger table does not
\* exist Run fails with the error that tells to run init, and creates no
\* table, opens no transaction, executes no action and appends no row.
C16_NoTableFailsFast ==
    LET f == run[1]
    IN  (f.pc = "done" /\ f.cmd # "init" /\ ~f.table0
         /\ Distinct(f.migrations)) =>
            /\ f.err = "no_table"
            /\ ~tableExists
            /\ txs[1] = <<>>
            /\ f.trace = <<>>
            /\ ledger = f.ledger0
            /\ f.oldVersion = 0 /\ f.newVersion = 0

C16_Witness ==
    LET f == run[1]
    IN  /\ f.pc = "done" /\ f.cmd = "up" /\ ~f.table0
        /\ f.migrations # <<>> /\ Distinct(f.migrations)
        /\ f.err = "no_table"
        /\ f.prev.a = <<"bogus">> /\ f.prev.err = "no_table"

\* C17: Run("init") on a database where the ledger table already exists,
\* with or without rows, succeeds without error; in every case it leaves
\* the rows of the ledger unchanged and takes no table lock.
C17_InitIdempotent ==
    LET f == run[1]
    IN  (f.pc = "done" /\ f.cmd = "init" /\ Distinct(f.migrations)) =>
            /\ f.table0 => f.err = "nil"
            /\ tableExists
            /\ ledger = f.ledger0
            /\ txs[1] = <<>>

C17_Witness ==
    LET f == run[1]
    IN  /\ f.pc = "done" /\ f.cmd = "init" /\ f.table0
        /\ f.ledger0 # <<>> /\ ledger = f.ledger0
        /\ f.err = "exists"

\* C17, the part that holds: Run("init") leaves the rows unchanged and opens
\* no transaction (takes no lock); it returns an error exactly when the
\* table was already there.
C17_InitKeepsRows ==
    LET f == run[1]
    IN  (f.pc = "done" /\ f.cmd = "init" /\ Distinct(f.migrations)) =>
            /\ f.err = (IF f.table0 THEN "exists" ELSE "nil")
            /\ tableExists
            /\ ledger = f.ledger0
            /\ txs[1] = <<>>

\* C20: when the snapshot of the registry holds two records with the same
\* version, Run fails with the duplicate-version error for every command,
\* before anything else: no table is created, no transaction opened, no
\* action executed, no row appended.
C20_DuplicateFailsRun ==
    LET f == run[1]
    IN  (f.pc = "done" /\ ~Distinct(f.migrations)) =>
            /\ f.err = "duplicate"
            /\ tableExists = f.table0
            /\ txs[1] = <<>>
            /\ f.trace = <<>>
            /\ ledger = f.ledger0
            /\ f.oldVersion = 0 /\ f.newVersion = 0

C20_Witness ==
    LET f == run[1]
    IN  /\ f.pc = "done" /\ ~Distinct(f.migrations)
        /\ f.cmd = "init" /\ ~f.table0 /\ ~tableExists
        /\ f.err = "duplicate"
        /\ f.prev.a = <<"up">> /\ f.prev.err = "duplicate"

NonDecreasing(vs) == \A i, j \in 1..Len(vs) : i < j => vs[i] <= vs[j]

\* C19 as stated: registering a record whose version is already in the
\* registry fails and leaves the registry as it was, so the registry never
\* holds two records of one version.
C19_RegistryDistinct == Distinct(registry)

\* C19 amended: a record whose version is already in the registry is
\* inserted like any other: the registry then holds both records, in
\* ascending order of version, and it is the following Run that fails with
\* the duplicate-version error, exactly when its snapshot holds a duplicate.
C19_DuplicateKeptUntilRun ==
    LET f == run[1]
    IN  /\ NonDecreasing(VersionsOf(registry))
        /\ f.pc = "done" =>
               /\ f.migrations = registry
               /\ (f.err = "duplicate") <=> ~Distinct(f.migrations)

C19_Witness ==
    LET f == run[1]
    IN  /\ f.pc = "done" /\ f.err = "duplicate"
        /\ Len(registry) = 3
        /\ \E i \in 1..2 : /\ registry[i].Version = registry[i + 1].Version
                             /\ registry[i] # registry[i + 1]

\* the ledger row that goes with an executed action
RowOf(e) == IF e[1] = "up" THEN e[2] ELSE e[2] - 1
RecordOf(f, v) ==
    CHOOSE m \in {f.migrations[i] : i \in 1..Len(f.migrations)} : m.Version = v
TxFlag(m, dir) == IF dir = "up" THEN m.UpTx ELSE m.DownTx

\* a committed transaction holds the effect of at most one action, and
\* holds it together with the ledger row of that action
EffectWithRow ==
    \A i \in 1..Len(txs[1]) :
        LET t == txs[1][i]
        IN  (t.st = "committed" /\ t.effs # <<>>) =>
                /\ Len(t.effs) = 1
                /\ t.rows = <<RowOf(t.effs[1])>>

\* one step of an invocation: an action that is executed goes into the
\* open transaction when its record is flagged transactional for the
\* direction, and takes effect at once on the ambient handle otherwise;
\* rows and transactional effects become durable only by the Commit of
\* their transaction, both together; every other step, a failing one
\* included, leaves the ledger and the durable effects as they are
StepAtomic ==
    LET f == run[1]
        g == run'[1]
        acts == SubSeq(g.trace, Len(f.trace) + 1, Len(g.trace))
        e == acts[1]
        commits == /\ f.tx # 0
                   /\ txs[1][f.tx].st = "open"
                   /\ txs'[1][f.tx].st = "committed"
    IN  (runs' = runs /\ f.pc \notin {"idle", "done"}) =>
            IF acts # <<>>
            THEN /\ Len(acts) = 1
                 /\ ledger' = ledger
                 /\ IF TxFlag(RecordOf(f, e[2]), e[1])
                    THEN /\ applied' = applied
                         /\ txs'[1][f.tx].effs = Append(txs[1][f.tx].effs, e)
                    ELSE /\ applied' = Effect(applied, e)
                         /\ txs'[1][f.tx].effs = txs[1][f.tx].effs
            ELSE IF commits
            THEN /\ ledger' = ledger \o txs[1][f.tx].rows
                 /\ applied' = Effects(applied, txs[1][f.tx].effs)
            ELSE /\ ledger' = ledger
                 /\ applied' = applied

\* C18: the action of a record flagged transactional for a direction is
\* executed inside the transaction that records its version: when the
\* action, the ledger append or the commit fails, neither its effects nor
\* the row become durable; the action of a record not flagged runs on the
\* ambient handle, outside that transaction.
C18_TxAtomic == []EffectWithRow /\ [][StepAtomic]_vars

C18_Witness ==
    LET f == run[1]
        m == f.migrations[f.idx]
    IN  /\ Finished(f, "up") /\ f.err = "commit" /\ f.at = "upCommit"
        /\ m.UpTx
        /\ f.trace # <<>> /\ f.trace[Len(f.trace)] = <<"up", m.Version>>
        /\ applied[m.Version] = 0
        /\ ledger = f.ledger0

\* the row the ledger received last (0 for a ledger without rows)
LastRow(rows) == IF Len(rows) = 0 THEN 0 ELSE rows[Len(rows)]

\* the invocation got past the checks that precede begin
PastChecks(f) ==
    /\ f.pc = "done" /\ f.cmd \notin {"init", "create"}
    /\ f.table0 /\ Distinct(f.migrations)

\* C21: the current version Run reads is the version of the row appended
\* last, not the greatest version ever appended, and 0 on a ledger without
\* rows; after appending 4 and then 2 the current version is 2.
C21_VersionIsLastRow ==
    LET f == run[1]
    IN  PastChecks(f) =>
            /\ f.oldVersion = LastRow(f.ledger0)
            /\ (f.ledger0 = <<>> => f.oldVersion = 0)
            /\ (f.prev.err = "nil" /\ Len(f.prev.a) = 2
                /\ f.prev.a[1] = "set_version") =>
                   f.oldVersion = Denoted(f.prev.a[2])

C21_Witness ==
    LET f == run[1]
    IN  /\ Finished(f, "version") /\ f.err = "nil"
        /\ f.ledger0 = <<4, 2>>
        /\ f.oldVersion = 2 /\ f.newVersion = 2

\* C22: Run with a command that is none of init, create, version, up, down,
\* reset, set_version executes no action, appends no row and leaves no
\* transaction open or committed; with the ledger table present, a registry
\* without duplicates and begin succeeding, the error it returns is the
\* unsupported-command error.
C22_UnsupportedCommand ==
    LET f == run[1]
        ts == txs[1]
    IN  Finished(f, "bogus") =>
            /\ f.err \in {"unsupported", "no_table", "duplicate", "lock"}
            /\ (f.table0 /\ Distinct(f.migrations) /\ f.err # "lock") =>
                   /\ f.err = "unsupported"
                   /\ f.dtx # 0 /\ ts[f.dtx].st = "rolledback"
            /\ f.trace = <<>>
            /\ ledger = f.ledger0
            /\ \A i \in 1..Len(ts) :
                   /\ ts[i].st = "rolledback"
                   /\ ts[i].rows = <<>> /\ ts[i].effs = <<>>

C22_Witness ==
    LET f == run[1]
    IN  /\ Finished(f, "bogus") /\ f.err = "unsupported"
        /\ f.ledger0 # <<>> /\ ledger = f.ledger0
        /\ Len(txs[1]) = 1 /\ txs[1][1].st = "rolledback"

\* the argument of the command is missing or is no number
BadArgument(f) ==
    \/ f.cmd = "set_version" /\ Len(f.a) < 2
    \/ f.cmd \in {"set_version", "up"} /\ Len(f.a) = 2 /\ f.a[2] = <<"x">>

\* C23: Run("set_version") without a version or with one that is no number,
\* and Run("up", t) with a target that is no number, return an error,
\* execute no action and append no row; the transaction begin opened is
\* rolled back.
C23_ArgumentErrors ==
    LET f == run[1]
        ts == txs[1]
    IN  (PastChecks(f) /\ BadArgument(f)) =>
            /\ f.err = IF Len(f.a) < 2 THEN "missing_arg" ELSE "parse"
            /\ f.trace = <<>>
            /\ ledger = f.ledger0
            /\ \A i \in 1..Len(ts) :
                   ts[i].st = "rolledback" /\ ts[i].rows = <<>>

C23_Witness ==
    LET f == run[1]
    IN  /\ Finished(f, "up") /\ f.a = <<"up", <<"x">>>> /\ f.err = "parse"
        /\ f.prev.a = <<"set_version", <<"x">>>> /\ f.prev.err = "parse"
        /\ f.ledger0 # <<>> /\ ledger = f.ledger0
        /\ Len(registry) > 0

\* C28: Run("version") reads the current version v in the transaction that
\* holds the table lock (where the engine has one), returns (v, v) and
\* commits that transaction; it executes no action and the rows of the
\* ledger stay as they were.
C28_VersionCommand ==
    LET f == run[1]
        ts == txs[1]
    IN  (Finished(f, "version") /\ f.table0 /\ Distinct(f.migrations)) =>
            /\ f.err = "nil"
            /\ f.oldVersion = LastRow(f.ledger0)
            /\ f.newVersion = f.oldVersion
            /\ f.trace = <<>>
            /\ ledger = f.ledger0
            /\ f.dtx = Len(ts)
            /\ ts[f.dtx].st = "committed"
            /\ ts[f.dtx].rows = <<>> /\ ts[f.dtx].effs = <<>>
            /\ lockSupported => ts[f.dtx].lock
            /\ \A i \in 1..(Len(ts) - 1) : ts[i].st = "rolledback"

C28_Witness ==
    LET f == run[1]
    IN  /\ Finished(f, "version") /\ f.err = "nil"
        /\ lockSupported
        /\ f.ledger0 # <<>> /\ f.oldVersion = LastRow(f.ledger0)
        /\ txs[1][f.dtx].st = "committed" /\ txs[1][f.dtx].lock

\* the rows an invocation that returned has appended
AppendedBy(f) ==
    CASE f.cmd = "up" ->
             Len(f.trace) - (IF f.err = "commit" /\ f.at = "upCommit"
                             THEN 1 ELSE 0)
      [] f.cmd = "down" ->
             IF f.err = "nil"
             THEN Len(DownOutcome(f, LastRow(f.ledger0)).rows) ELSE 0
      [] f.cmd = "reset" ->
             Len(f.trace) - (IF f.err = "commit" /\ f.newVersion # f.version
                             THEN 1 ELSE 0)
      [] f.cmd = "set_version" -> IF f.err = "nil" THEN 1 ELSE 0
      [] OTHER -> 0

RowsPerRun ==
    LET f == run[1]
    IN  f.pc = "done" =>
            /\ SubSeq(ledger, 1, Len(f.ledger0)) = f.ledger0
            /\ Len(ledger) = Len(f.ledger0) + AppendedBy(f)

AppendsOne ==
    \/ ledger' = ledger
    \/ /\ run[1].pc \in {"upCommit", "resetCommit", "final"}
       /\ Len(ledger') = Len(ledger) + 1
       /\ SubSeq(ledger', 1, Len(ledger)) = ledger

\* C29: the ledger is append-only: every step leaves its rows as they are
\* or, at a commit, appends exactly one row; a committed up step, a
\* committed down step and a set_version append one row each, and version,
\* create and an up, down or reset with nothing to do append none.
C29_AppendOnly == []RowsPerRun /\ [][AppendsOne]_vars

C29_Witness ==
    LET f == run[1]
    IN  /\ Finished(f, "version") /\ f.err = "nil"
        /\ f.prev.a = <<"down">> /\ f.prev.err = "nil"
        /\ ledger = <<1, 2, 1>> /\ ledger = f.ledger0

\* the invocation returned what its snapshot and the ledger it started on
\* determine, and executed records of the snapshot only
SnapOutcome ==
    LET f == run[1]
    IN  (f.pc = "done" /\ Distinct(f.migrations)) =>
            /\ Completes(f)
            /\ Executed(f) \subseteq VersionSet(f.migrations)

SnapFixed ==
    run[1].pc \notin {"idle", "done"} =>
        run'[1].migrations = run[1].migrations

\* C27: the list a Run invocation validates and iterates is the copy taken
\* when it started: records registered into the live registry while the
\* invocation is in progress are not executed by it and change neither the
\* order nor the content of its iteration.
C27_SnapshotIndependent == []SnapOutcome /\ [][SnapFixed]_vars

C27_Witness ==
    LET f == run[1]
    IN  /\ f.pc = "upCommit" /\ f.idx = 2
        /\ Len(Snapshot(f)) = 2
        /\ Len(registry) = 3
        /\ registry[1].Version < Snapshot(f)[1].Version
        /\ f.trace = <<<<"up", Snapshot(f)[1].Version>>,
                       <<"up", Snapshot(f)[2].Version>>>>

\* the statements executed so far are the first statements of the file, in
\* the order of the file
InOrder ==
    /\ Len(sql.log) <= Len(sql.queries)
    /\ \A j \in 1..Len(sql.log) : sql.log[j].q = sql.queries[j]

OneConnection == \A j, l \in 1..Len(sql.log) : sql.log[j].conn = sql.log[l].conn

\* C24: the statements of a SQL file that splits into more than one are
\* executed in file order on one and the same connection (the one checked
\* out of the pool, when the handle is a pool), all of them when the action
\* returns nil; a file of a single statement is executed on the handle the
\* action was given.
C24_SplitOnOneConnection ==
    /\ InOrder
    /\ (sql.pc = "done" /\ sql.err = "nil") => Len(sql.log) = Len(sql.queries)
    /\ Len(sql.queries) > 1 =>
           /\ OneConnection
           /\ \A j \in 1..Len(sql.log) :
                  /\ sql.log[j].conn = sql.conn
                  /\ sql.log[j].via = IF sql.handle = "pool" THEN "conn"
                                      ELSE sql.handle
    /\ Len(sql.queries) = 1 =>
           \A j \in 1..Len(sql.log) : sql.log[j].via = sql.handle

C24_Witness ==
    /\ sql.pc = "done" /\ sql.err = "nil" /\ sql.handle = "pool"
    /\ sql.body = <<Line, <<Directive, "split">>, Line>>
    /\ Len(sql.log) = 2
    /\ sql.log[1].conn = 2 /\ sql.log[2].conn = 2

\* a call on a directory that was discovered before changes nothing
DiscoverAgain ==
    (disc'.calls # disc.calls /\ Abs(disc'.path) \in visitedDirs) =>
        /\ registry' = registry
        /\ visitedDirs' = visitedDirs
        /\ disc'.err = "nil"
        /\ disc'.scans = disc.scans

\* C25: a DiscoverSQLMigrations call on a directory that was discovered
\* before, under whatever spelling of its path, does not scan the directory
\* and leaves the registry as it is: the directory is scanned at most once,
\* however often it is discovered and whatever was added to it since.
C25_DiscoverOnce == [](disc.scans <= 1) /\ [][DiscoverAgain]_vars

C25_Witness ==
    /\ disc.calls = 2 /\ disc.revisit /\ disc.err = "nil"
    /\ disc.path = RelPath
    /\ disc.scans = 1
    /\ Len(disc.scanned) = 1 /\ Len(dirFiles) = 2
    /\ scanFiles(dirFiles, <<>>).err = "nil"
    /\ Len(scanFiles(dirFiles, <<>>).ms) = 2
    /\ registry = disc.before /\ Len(registry) = 1

\* the last call scanned the directory
Scanned == disc.calls > 0 /\ ~disc.revisit /\ dirExists(Abs(disc.path))

SQLEntries(files) ==
    SelectSeq(files, LAMBDA f : ~f.isDir /\ HasSuffix(f.ext, <<".sql">>))

Direction(f) ==
    IF HasSuffix(f.ext, <<".up", ".sql">>) THEN "up"
    ELSE IF HasSuffix(f.ext, <<".down", ".sql">>) THEN "down" ELSE "none"

\* a file name without '_' or without a number before it, an extension
\* that names no direction, two files of one version and direction
NameError(files) ==
    LET fs == SQLEntries(files)
    IN  \/ \E i \in 1..Len(fs) :
               ~fs[i].sep \/ ~ParseInt(fs[i].ver).ok
                          \/ Direction(fs[i]) = "none"
        \/ \E i, j \in 1..Len(fs) :
               /\ i < j /\ Direction(fs[i]) = Direction(fs[j])
               /\ ParseInt(fs[i].ver).n = ParseInt(fs[j].ver).n

UnknownDirective(body) ==
    \E j \in 1..Len(body) :
        isDirective(body[j]) /\ Tail(body[j]) # <<"split">>

\* a version of the directory that the registry already has, or a file
\* with an unknown directive
LateError(files, reg) ==
    LET fs == SQLEntries(files)
    IN  \E i \in 1..Len(fs) :
            \/ UnknownDirective(fs[i].body)
            \/ ParseInt(fs[i].ver).n \in VersionSet(reg)

\* C26 as stated: a bad file name, a bad extension, a duplicate version, a
\* duplicate direction or an unknown directive fails the discovery call, and
\* the failed call adds no record.
C26_ConfigErrorsFailDiscovery ==
    (Scanned /\ (NameError(disc.scanned)
                 \/ LateError(disc.scanned, disc.before))) =>
        disc.err # "nil" /\ disc.after = disc.before

\* C26 as amended: a bad file name, a bad extension and a duplicate direction
\* fail the discovery call, which reads no file and adds no record; a call
\* on a directory without such an error succeeds and adds one record per
\* version, also for a version the registry already has and for a file with
\* an unknown directive: that directive is reported by the action when it
\* is executed, before it executes any statement.
C26_NameErrorsFailDiscovery ==
    /\ Scanned =>
           IF NameError(disc.scanned)
           THEN /\ disc.err \in {"name", "parse", "extension", "has_up",
                                 "has_down"}
                /\ disc.after = disc.before
           ELSE /\ disc.err = "nil"
                /\ Len(disc.after) = Len(disc.before) + Cardinality(
                       {ParseInt(f.ver).n :
                            f \in {SQLEntries(disc.scanned)[i] :
                                     i \in 1..Len(SQLEntries(disc.scanned))}})
    /\ (sql.pc = "done" /\ UnknownDirective(sql.body)) =>
           sql.err = "directive" /\ sql.log = <<>>

C26_Witness ==
    /\ Scanned /\ disc.err = "nil"
    /\ ~NameError(disc.scanned)
    /\ Len(disc.before) = 1 /\ disc.before[1].Version = 1
    /\ Len(disc.after) = 2 /\ disc.after[2].Version = 1
    /\ sql.pc = "done" /\ sql.err = "directive"
    /\ UnknownDirective(sql.body)

\* C30: after any sequence of registrations and discovery calls, versions
\* arriving in any order, the registry is in ascending order of version in
\* every state.
C30_RegistrySorted == NonDecreasing(VersionsOf(registry))

C30_Witness ==
    /\ unordered
    /\ Len(registry) = 4
    /\ registry[1].Version < registry[4].Version
    /\ \E i, j \in 1..4 : /\ "UpBody" \in DOMAIN registry[i]
                          /\ "UpBody" \notin DOMAIN registry[j]
    /\ disc.calls > 0 /\ disc.err = "nil"


\* C35: Run("up") never executes the up action of a record whose version is
\* less than or equal to the current version read in the transaction of
\* that step, which is the ledger's current version; this includes records
\* that were never applied
UpAboveVersion ==
    \A v \in Versions :
        upExec'[v] # upExec[v] =>
            /\ run[1].tx # 0 /\ txs[1][run[1].tx].st = "open"
            /\ run[1].version = Version(ledger)
            /\ v > run[1].version

C35_UpSkipsAtOrBelow == [][UpAboveVersion]_vars

\* up returned nil having executed record 3 only: record 2 was jumped over
\* by set_version, record 1 was registered after a higher one
C35_Witness ==
    /\ Finished(run[1], "up") /\ run[1].err = "nil"
    /\ VersionSet(run[1].migrations) = {1, 2, 3}
    /\ unordered
    /\ run[1].oldVersion = 2
    /\ upExec[1] = 0 /\ upExec[2] = 0 /\ upExec[3] = 1
    /\ Executed(run[1]) = {3}

\* C36: with one caller, whenever Run returns no error for version, up,
\* down, reset or set_version, the returned oldVersion is the ledger's
\* current version before the call and the returned newVersion is the
\* ledger's current version after the call
C36_ReturnedVersions ==
    LET f == run[1]
    IN  (/\ f.pc = "done" /\ f.err = "nil"
         /\ f.cmd \in {"version", "up", "down", "reset", "set_version"})
        => /\ f.oldVersion = LastRow(f.ledger0)
           /\ f.newVersion = LastRow(ledger)

\* a reset that returned nil after moving the ledger from 2 to 0
C36_Witness ==
    LET f == run[1]
    IN  /\ Finished(f, "reset") /\ f.err = "nil"
        /\ LastRow(f.ledger0) = 2 /\ f.oldVersion = 2
        /\ LastRow(ledger) = 0 /\ ledger # <<>> /\ f.newVersion = 0
        /\ Len(ledger) = Len(f.ledger0) + 2

\* C32: on an engine that reports LOCK TABLE as unsupported, begin takes no
\* lock and waits for nobody, so nothing serialises two concurrent
\* Run("up"): both can read the same current version and both execute the
\* up action of the same record
NoLockTaken ==
    \A p \in Procs : \A i \in 1..Len(txs[p]) : ~txs[p][i].lock

C32_NoLockNoSerialisation ==
    ~lockSupported =>
        /\ NoLockTaken
        /\ \A p \in Procs :
               run[p].pc \in {"begin", "upBegin"} => ENABLED begin(p)

\* both invocations returned nil after reading version 0 and executing the
\* up action of record 1: the action ran twice and the ledger has two rows
C32_Witness ==
    /\ ~lockSupported
    /\ \A p \in Procs :
           /\ Finished(run[p], "up") /\ run[p].err = "nil"
           /\ run[p].oldVersion = 0
           /\ 1 \in Executed(run[p])
    /\ upExec[1] = 2
    /\ Len(SelectSeq(ledger, LAMBDA v : v = 1)) = 2

\* C37: with the table lock supported, in every interleaving of concurrent
\* invocations a step of Run("up") that changes the ledger never decreases
\* its current version, and a step of Run("down") or Run("reset") never
\* increases it
LockedMonotonic ==
    \A p \in Procs :
        (ledger' # ledger /\ txs'[p] # txs[p]) =>
            /\ run[p].cmd \in {"up", "down", "reset"}
            /\ run[p].cmd = "up" => LastRow(ledger') >= LastRow(ledger)
            /\ run[p].cmd \in {"down", "reset"} =>
                   LastRow(ledger') <= LastRow(ledger)

C37_MonotonicUnderLock == [][LockedMonotonic]_vars

\* a down of the other caller committed between the two steps of an up:
\* the ledger went 1, 0, 2
C37_Witness ==
    /\ lockSupported
    /\ \E p, q \in Procs :
           /\ p # q
           /\ Finished(run[p], "up") /\ run[p].err = "nil"
           /\ Finished(run[q], "down") /\ run[q].err = "nil"
           /\ run[q].oldVersion = 1 /\ run[q].newVersion = 0
           /\ run[p].trace = <<<<"up", 1>>, <<"up", 2>>>>
    /\ ledger = <<1, 0, 2>>

\* C38: on an engine with the table lock and under fair scheduling, when
\* two callers invoke Run("up") concurrently and every action succeeds,
\* every invocation eventually returns nil (nobody waits for the ledger
\* lock for ever), and once all have returned the current version is the
\* greatest registered version
Running(p) == run[p].pc \notin {"idle", "done"}

Returned(p) == run[p].pc = "done" /\ run[p].err = "nil"

GreatestRegistered ==
    IF registry = <<>> THEN 0
    ELSE CHOOSE v \in VersionSet(registry) :
             \A w \in VersionSet(registry) : w <= v

FinalMax ==
    ((\A p \in Procs : ~Running(p)) /\ \E p \in Procs : Returned(p)) =>
        LastRow(ledger) = GreatestRegistered

C38_UpEventuallyReturns ==
    /\ \A p \in Procs : Running(p) ~> Returned(p)
    /\ []FinalMax

\* both callers returned nil, each having applied one of the two records:
\* the second waited for the lock while the first applied its step
C38_Witness ==
    /\ \A p \in Procs : Returned(p) /\ run[p].cmd = "up"
    /\ \E p, q \in Procs :
           /\ run[p].trace = <<<<"up", 1>>>>
           /\ run[q].trace = <<<<"up", 2>>>>
    /\ ledger = <<1, 2>>
    /\ GreatestRegistered = 2

\* C39: Run("reset") terminates for every registry and every starting
\* version when its database operations succeed: an iteration that changes
\* the current version strictly decreases it and the loop goes on, the
\* first iteration that leaves it unchanged ends the loop
ResetIteration ==
    (run[1].cmd = "reset" /\ run[1].pc = "resetCommit"
     /\ run'[1].pc # "resetCommit") =>
        IF LastRow(ledger') # LastRow(ledger)
        THEN LastRow(ledger') < LastRow(ledger) /\ run'[1].pc = "resetBegin"
        ELSE run'[1].pc = "done" /\ run'[1].err = "nil"

C39_ResetTerminates ==
    /\ (run[1].cmd = "reset" /\ Running(1))
           ~> (Finished(run[1], "reset") /\ run[1].err = "nil")
    /\ [][ResetIteration]_vars

\* reset returned nil after three iterations: 2 to 1, 1 to 0, and one that
\* changed nothing
C39_Witness ==
    /\ Finished(run[1], "reset") /\ run[1].err = "nil"
    /\ run[1].oldVersion = 2 /\ run[1].newVersion = 0
    /\ Len(ledger) = Len(run[1].ledger0) + 2
    /\ [i \in 1..Len(txs[1]) |-> txs[1][i].rows] = <<<<1>>, <<0>>, <<>>>>
    /\ \A i \in 1..Len(txs[1]) : txs[1][i].st = "committed"

\* C33: parsing a SQL migration file yields an ordered sequence of
\* statements in which each line equal to --gopg:split closes the current
\* statement and starts a new one, every other line that is no directive
\* (blank lines included) is appended verbatim and newline-terminated to the
\* current statement, and a trailing non-empty buffer is the last statement;
\* any other line starting with --gopg: fails with an unknown-directive
\* error and no statement of the file is executed. Original statement: the
\* sequence has one or more statements
SplitsAt(body) == {i \in 1..Len(body) : body[i] = SplitLine}

\* the position of the n-th split line (0 for n = 0, past the end after the
\* last one)
Cut(body, n) ==
    IF n = 0 THEN 0
    ELSE IF n > Cardinality(SplitsAt(body)) THEN Len(body) + 1
    ELSE CHOOSE i \in SplitsAt(body) :
             Cardinality({j \in SplitsAt(body) : j <= i}) = n

RECURSIVE Join(_)
Join(lines) ==
    IF lines = <<>> THEN <<>>
    ELSE Head(lines) \o <<"\n">> \o Join(Tail(lines))

\* the lines between the (n-1)-th and the n-th split line
Segment(body, n) == SubSeq(body, Cut(body, n - 1) + 1, Cut(body, n) - 1)

Statements(body) ==
    LET k == Cardinality(SplitsAt(body))
        last == Segment(body, k + 1)
        n == IF last = <<>> THEN k ELSE k + 1
    IN  [j \in 1..n |-> Join(Segment(body, j))]

ParsedAsWritten ==
    sql.pc # "idle" =>
        IF \E j \in 1..Len(sql.body) :
               /\ sql.body[j] # <<>> /\ Head(sql.body[j]) = Directive
               /\ sql.body[j] # SplitLine
        THEN sql.pc = "done" /\ sql.err = "directive" /\ sql.log = <<>>
        ELSE /\ sql.err = "nil"
             /\ sql.queries = Statements(sql.body)
             /\ Len(sql.log) <= Len(sql.queries)
             /\ \A j \in 1..Len(sql.log) : sql.log[j].q = sql.queries[j]
             /\ sql.pc = "done" => Len(sql.log) = Len(sql.queries)

C33_OneOrMoreStatements ==
    /\ ParsedAsWritten
    /\ (sql.pc # "idle" /\ sql.err = "nil") => Len(sql.queries) >= 1

\* amended: the sequence has no statement when the file has no line
C33_ZeroOrMoreStatements ==
    /\ ParsedAsWritten
    /\ (sql.pc # "idle" /\ sql.err = "nil") =>
           (Len(sql.queries) = 0 <=> sql.body = <<>>)

\* a blank line, the split directive and a statement line: two statements,
\* the first one a newline, both executed
C33_Witness ==
    /\ sql.pc = "done" /\ sql.err = "nil"
    /\ sql.body = <<Blank, SplitLine, Line>>
    /\ sql.queries = <<<<"\n">>, <<"SELECT", "\n">>>>
    /\ Len(sql.log) = 2

\* C31: when several goroutines register or discover records concurrently
\* on one registry, no record is lost and none is duplicated, and the list
\* stays in ascending order: once all calls have returned the registry
\* holds exactly the records that were added, each as often as it was
\* added; the directory is scanned once
Occurrences(s, x) == Cardinality({i \in 1..Len(s) : s[i] = x})

SameRecords(s, t) ==
    /\ Len(s) = Len(t)
    /\ \A i \in 1..Len(t) : Occurrences(s, t[i]) = Occurrences(t, t[i])

Quiescent == mu = 0 /\ \A g \in Procs : gor[g].pc = "idle"

C31_NoLostRegistration ==
    /\ NonDecreasing(VersionsOf(registry))
    /\ disc.scans <= 1
    /\ Quiescent => SameRecords(registry, added)

\* both goroutines made calls, a discovery that scanned, a discovery that
\* found the directory visited and a registration: the three records are
\* there, in order
C31_Witness ==
    /\ Quiescent
    /\ \A g \in Procs : gor[g].started > 0
    /\ \E g \in Procs : gor[g].op = "discover" /\ gor[g].seen
    /\ \E g \in Procs : gor[g].op = "register"
    /\ VersionsOf(registry) = <<1, 2, 2>>
    /\ unordered

\* C40 as stated: whenever DiscoverSQLMigrations returns nil for an existing
\* directory, every well-formed migration file of the directory is
\* represented in the registry, also when an earlier call for the directory
\* failed and when another goroutine's call for it is still in progress.
WellFormed(f) ==
    LET r == scanFiles(<<f>>, <<>>) IN r.err = "nil" /\ Len(r.ms) = 1

Represented(f) ==
    LET m == scanFiles(<<f>>, <<>>).ms[1]
    IN  \E i \in 1..Len(registry) :
            /\ "UpBody" \in DOMAIN registry[i]
            /\ registry[i].Version = m.Version
            /\ m.HasUp => registry[i].HasUp /\ registry[i].UpBody = m.UpBody
            /\ m.HasDown =>
                   registry[i].HasDown /\ registry[i].DownBody = m.DownBody

ReturnedNil(g) ==
    /\ gor[g].pc = "idle" /\ gor[g].op = "discover" /\ gor[g].err = "nil"
    /\ dirExists(gor[g].dir)

C40_NilMeansRegistered ==
    \A g \in Procs :
        ReturnedNil(g) =>
            \A i \in 1..Len(dirFiles) :
                WellFormed(dirFiles[i]) => Represented(dirFiles[i])

\* a call returned nil because the directory was marked visited while the
\* other goroutine's call, which marked it, has not registered anything yet:
\* the directory holds well-formed files only and the registry is empty
C40_Witness ==
    /\ \E g, h \in Procs :
           /\ ReturnedNil(g) /\ gor[g].seen
           /\ gor[h].op = "discover" /\ gor[h].pc \in {"scan", "addEnter"}
    /\ dirFiles # <<>>
    /\ \A i \in 1..Len(dirFiles) : WellFormed(dirFiles[i])
    /\ scanFiles(dirFiles, <<>>).err = "nil"
    /\ registry = <<>>

\* what holds instead: a call that returns nil having scanned the directory
\* has registered every file of it
C40_ScanMeansRegistered ==
    \A g \in Procs :
        (ReturnedNil(g) /\ ~gor[g].seen) =>
            /\ scanFiles(dirFiles, <<>>).err = "nil"
            /\ \A i \in 1..Len(dirFiles) :
                   WellFormed(dirFiles[i]) => Represented(dirFiles[i])

\* C34 as stated: reading the current version on a database where the ledger
\* table does not exist yet creates the table and returns 0 instead of
\* failing.
C34_VersionCreatesTable ==
    (call.op = "Version" /\ ~call.table0) =>
        call.err = "nil" /\ call.version = 0 /\ tableExists

\* Version was called before init on a database without the table: it
\* failed and the table is still not there
C34_Witness ==
    /\ call.op = "Version" /\ ~call.table0
    /\ call.err = "no_relation"
    /\ ~tableExists /\ runs = 0

\* what holds instead: without the table Version and Run("version") fail
\* and create nothing; with the table Version returns the last row, 0 when
\* there is none
C34_VersionNeedsTable ==
    /\ call.op = "Version" =>
           IF call.table0
           THEN call.err = "nil" /\ call.version = LastRow(ledger)
           ELSE call.err # "nil"
    /\ (Finished(run[1], "version") /\ ~run[1].table0) =>
           run[1].err # "nil" /\ ~tableExists
====
